---- MODULE Spec2Model ----
(***************************************************************************)
(* GNSS/IMU integrated navigation (gps_time_delay): the error-state Kalman *)
(* filter, the realtime (queue based) pipeline and the offline             *)
(* (reorganise, sort, replay) pipeline.                                    *)
(*                                                                         *)
(* Numbers.  The program computes in double; the model computes in         *)
(* integers.  Time is counted in IMU periods (one tick = imu_dt_ = 0.04 s, *)
(* so 5.0 s = 125 ticks).  Every 3-vector block of the 18-state filter is  *)
(* modelled by one component, in this order:                               *)
(*     1 = p, 2 = v, 3 = theta (yaw), 4 = bg, 5 = ba, 6 = g                *)
(* and SO(3) by the rotations about one axis: an angle in degrees modulo   *)
(* 360, composition is addition, Exp and Log are the identity on angles    *)
(* (Log wrapped into (-180, 180]).  A rotation acts on a block as the      *)
(* scalar 1, and the block -R [a - ba]x of the transition matrix is kept   *)
(* as the scalar -(a - ba), so that velocity and attitude stay coupled.    *)
(* The Kalman gain is kept in fixed point (KScale).                        *)
(***************************************************************************)
EXTENDS Integers, Sequences, FiniteSets, TLC

VARIABLES
    options,        \* ESKF::Options of the filter instance
    eskf,           \* the ESKF instance: nominal state, error state, covariance
    rt,             \* RunRealtimeMode: the locals its callbacks capture
    off,            \* RunOfflineMode: data manager, turn segments, processor
    calls,          \* history: the filter operations performed so far, in order
    events,         \* history: the records handed to the pipeline so far
    td,             \* a TurnDetector instance driven on its own
    io,             \* a TxtIO instance reading the records of a log
    main            \* main(): its flags, the state of the log file, its return value

vars == <<options, eskf, rt, off, calls, events, td, io, main>>

(***************************************************************************)
(* Bounds of the model                                                     *)
(***************************************************************************)
MaxCalls == 4       \* operations performed on a bare filter
KScale   == 64      \* fixed point denominator of the Kalman gain

(***************************************************************************)
(* Integer helpers                                                         *)
(***************************************************************************)

\* division rounding toward zero, b > 0
Quot(a, b) == IF a >= 0 THEN a \div b ELSE -((-a) \div b)

Dim == 1..6

Zero6 == <<0, 0, 0, 0, 0, 0>>

(***************************************************************************)
(* SO(3), restricted to one axis                                           *)
(***************************************************************************)
FullTurn == 360

\* an angle brought into [0, 360)
NormAngle(a) == a % FullTurn

\* the sum of the two angles as numbers: not the product in the group
Compose_Sum(R, w) == R + w

\* SO3::exp followed by right composition: R * Exp(w)
Compose(R, w) == NormAngle(R + w)

\* (R.inverse() * R2).log(): the rotation from R to R2, in (-180, 180]
LogDiff(R, R2) ==
    LET d == NormAngle(R2 - R)
    IN  IF 2 * d > FullTurn THEN d - FullTurn ELSE d

(***************************************************************************)
(* ESKF::Options                                                           *)
(***************************************************************************)
imu_dt_ == 1                \* 0.04 s, the unit of time
gyro_var_ == 2
acce_var_ == 5
bias_gyro_var_ == 1
bias_acce_var_ == 1
gnss_pos_noise_ == 5
gnss_ang_noise_ == 1
fixed_time_delay_ == 5      \* 0.2 s
CovInit == 1

DefaultOptions ==
    [ imu_dt_ |-> imu_dt_,
      enable_time_compensation_ |-> FALSE,
      fixed_time_delay_ |-> fixed_time_delay_,
      update_bias_gyro_ |-> TRUE,
      update_bias_acce_ |-> TRUE ]

\* BuildNoise: the diagonal of Q
Q_ ==
    LET d == <<0, acce_var_, gyro_var_, bias_gyro_var_, bias_acce_var_, 0>>
    IN  [i \in Dim |-> [j \in Dim |-> IF i = j THEN d[i] ELSE 0]]

\* the filter after construction and SetInitialConditions (InitializeESKF)
InitialESKF ==
    [ current_time_ |-> 0,
      p_ |-> 0, v_ |-> 0, R_ |-> 0,
      bg_ |-> 0, ba_ |-> 0, g_ |-> 0,
      dx_ |-> Zero6,
      cov_ |-> [i \in Dim |-> [j \in Dim |-> IF i = j THEN CovInit ELSE 0]],
      first_gnss_ |-> TRUE ]

(***************************************************************************)
(* ESKF::Predict                                                           *)
(***************************************************************************)
\* the installation rotation on the modelled axis (roll install is 0)
C_phone_to_body_ == 1

ApplyPhoneInstallCorrection(imu) ==
    [imu EXCEPT !.acce_ = C_phone_to_body_ * imu.acce_,
                !.gyro_ = C_phone_to_body_ * imu.gyro_]

ApplyTimeCompensation(o, imu) ==
    IF ~o.enable_time_compensation_
    THEN imu
    ELSE [imu EXCEPT !.timestamp_ = imu.timestamp_ + o.fixed_time_delay_]

\* F x for the transition matrix F of Predict: the identity plus the blocks
\*   F(p,v) = dt      F(v,theta) = -(a - ba) dt      F(v,ba) = -dt
\*   F(v,g) = dt      F(theta,theta) = Exp(-(w - bg) dt) = 1 on the axis
\*   F(theta,bg) = -dt
MulF(x, acc, dt) ==
    << x[1] + dt * x[2],
       x[2] - acc * dt * x[3] - dt * x[5] + dt * x[6],
       x[3] - dt * x[4],
       x[4], x[5], x[6] >>

\* F P F^T + Q
PropagateCov(P, acc, dt) ==
    LET PFt  == [i \in Dim |-> MulF(P[i], acc, dt)]
        cols == [j \in Dim |-> MulF(<<PFt[1][j], PFt[2][j], PFt[3][j], PFt[4][j], PFt[5][j], PFt[6][j]>>, acc, dt)]
    IN  [i \in Dim |-> [j \in Dim |-> cols[j][i] + Q_[i][j]]]

\* the time guards of Predict: "early", "gap" or "ok"
PredictGuard(e, o, t) ==
    LET dt == t - e.current_time_
    IN  IF dt < 0 THEN "early"
        ELSE IF dt > 5 * o.imu_dt_ THEN "gap"
        ELSE "ok"

\* the propagation over one sample period imu_dt_ whatever dt is
Propagate_SamplePeriod(e, imu, dt) ==
    LET acc   == imu.acce_ - e.ba_
        step  == imu_dt_
        new_p == e.p_ + e.v_ * step + Quot(acc * step * step, 2) + Quot(e.g_ * step * step, 2)
        new_v == e.v_ + acc * step + e.g_ * step
        new_R == Compose(e.R_, (imu.gyro_ - e.bg_) * step)
    IN  [e EXCEPT !.p_ = new_p, !.v_ = new_v, !.R_ = new_R,
                  !.dx_ = MulF(e.dx_, acc, step),
                  !.cov_ = PropagateCov(e.cov_, acc, step),
                  !.current_time_ = imu.timestamp_]

\* nominal and error state propagation of Predict, for an accepted dt
Propagate(e, imu, dt) ==
    LET acc   == imu.acce_ - e.ba_
        new_p == e.p_ + e.v_ * dt + Quot(acc * dt * dt, 2) + Quot(e.g_ * dt * dt, 2)
        new_v == e.v_ + acc * dt + e.g_ * dt
        new_R == Compose(e.R_, (imu.gyro_ - e.bg_) * dt)
    IN  [e EXCEPT !.p_ = new_p, !.v_ = new_v, !.R_ = new_R,
                  !.dx_ = MulF(e.dx_, acc, dt),
                  !.cov_ = PropagateCov(e.cov_, acc, dt),
                  !.current_time_ = imu.timestamp_]

\* Predict with the early-sample guard also moving the clock
Predict_EarlyMovesClock(e, o, imu0) ==
    LET imu   == ApplyTimeCompensation(o, ApplyPhoneInstallCorrection(imu0))
        guard == PredictGuard(e, o, imu.timestamp_)
    IN  IF guard \in {"early", "gap"}
        THEN [eskf |-> [e EXCEPT !.current_time_ = imu.timestamp_], ok |-> FALSE]
        ELSE [eskf |-> Propagate(e, imu, imu.timestamp_ - e.current_time_), ok |-> TRUE]

\* Predict with the gap guard leaving the clock where it was
Predict_GapKeepsClock(e, o, imu0) ==
    LET imu   == ApplyTimeCompensation(o, ApplyPhoneInstallCorrection(imu0))
        guard == PredictGuard(e, o, imu.timestamp_)
    IN  IF guard \in {"early", "gap"} THEN [eskf |-> e, ok |-> FALSE]
        ELSE [eskf |-> Propagate(e, imu, imu.timestamp_ - e.current_time_), ok |-> TRUE]

\* bool ESKF::Predict(const IMU&): the filter afterwards and the value returned
Predict(e, o, imu0) ==
    LET imu   == ApplyTimeCompensation(o, ApplyPhoneInstallCorrection(imu0))
        guard == PredictGuard(e, o, imu.timestamp_)
    IN  IF guard = "early" THEN [eskf |-> e, ok |-> FALSE]
        ELSE IF guard = "gap"
        THEN [eskf |-> [e EXCEPT !.current_time_ = imu.timestamp_], ok |-> FALSE]
        ELSE [eskf |-> Propagate(e, imu, imu.timestamp_ - e.current_time_), ok |-> TRUE]

(***************************************************************************)
(* ESKF::UpdateAndReset, ObserveSE3, ObservePositionOnly(SE3)              *)
(***************************************************************************)
\* ProjectCov: J = I except J(theta, theta) = I - 0.5 hat(dtheta), which is 1 on the axis
ProjectCov(cov, dx) == cov

\* UpdateAndReset without the final dx_.setZero()
UpdateAndReset_KeepsDx(e, o) ==
    [e EXCEPT !.p_ = e.p_ + e.dx_[1],
              !.v_ = e.v_ + e.dx_[2],
              !.R_ = Compose(e.R_, e.dx_[3]),
              !.bg_ = IF o.update_bias_gyro_ THEN e.bg_ + e.dx_[4] ELSE e.bg_,
              !.ba_ = IF o.update_bias_acce_ THEN e.ba_ + e.dx_[5] ELSE e.ba_,
              !.g_ = e.g_ + e.dx_[6],
              !.cov_ = ProjectCov(e.cov_, e.dx_)]

\* UpdateAndReset that corrects both biases whatever the options say
UpdateAndReset_BothBiases(e, o) ==
    [e EXCEPT !.p_ = e.p_ + e.dx_[1],
              !.v_ = e.v_ + e.dx_[2],
              !.R_ = Compose(e.R_, e.dx_[3]),
              !.bg_ = e.bg_ + e.dx_[4],
              !.ba_ = e.ba_ + e.dx_[5],
              !.g_ = e.g_ + e.dx_[6],
              !.cov_ = ProjectCov(e.cov_, e.dx_),
              !.dx_ = Zero6]

UpdateAndReset(e, o) ==
    [e EXCEPT !.p_ = e.p_ + e.dx_[1],
              !.v_ = e.v_ + e.dx_[2],
              !.R_ = Compose(e.R_, e.dx_[3]),
              !.bg_ = IF o.update_bias_gyro_ THEN e.bg_ + e.dx_[4] ELSE e.bg_,
              !.ba_ = IF o.update_bias_acce_ THEN e.ba_ + e.dx_[5] ELSE e.ba_,
              !.g_ = e.g_ + e.dx_[6],
              !.cov_ = ProjectCov(e.cov_, e.dx_),
              !.dx_ = Zero6]

\* ObserveSE3: H selects p and theta; K = P H^T (H P H^T + V)^-1 in fixed point
ObserveSE3(e, o, pose, trans_noise, ang_noise) ==
    LET P   == e.cov_
        s11 == P[1][1] + trans_noise
        s12 == P[1][3]
        s21 == P[3][1]
        s22 == P[3][3] + ang_noise
        det == s11 * s22 - s12 * s21
        K1  == [i \in Dim |-> Quot((P[i][1] * s22 - P[i][3] * s21) * KScale, det)]
        K2  == [i \in Dim |-> Quot((P[i][3] * s11 - P[i][1] * s12) * KScale, det)]
        innov_p == pose.p - e.p_
        innov_R == LogDiff(e.R_, pose.R)     \* the yaw channel; roll and pitch are zeroed
        dx  == [i \in Dim |-> Quot(K1[i] * innov_p + K2[i] * innov_R, KScale)]
        cov == [i \in Dim |-> [j \in Dim |->
                    P[i][j] - Quot(K1[i] * P[1][j] + K2[i] * P[3][j], KScale)]]
    IN  UpdateAndReset([e EXCEPT !.dx_ = dx, !.cov_ = cov], o)

\* ObservePositionOnly(const SE3&, trans_noise): H selects p
ObservePositionOnlySE3(e, o, pose, trans_noise) ==
    LET P   == e.cov_
        s   == P[1][1] + trans_noise
        K   == [i \in Dim |-> Quot(P[i][1] * KScale, s)]
        innov == pose.p - e.p_
        dx  == [i \in Dim |-> Quot(K[i] * innov, KScale)]
        cov == [i \in Dim |-> [j \in Dim |-> P[i][j] - Quot(K[i] * P[1][j], KScale)]]
    IN  UpdateAndReset([e EXCEPT !.dx_ = dx, !.cov_ = cov], o)

(***************************************************************************)
(* ESKF::ObserveGps, ESKF::ObservePositionOnly(const GNSS&)                *)
(***************************************************************************)
\* the first fix sets the initial pose
FirstGnss(e, gnss) ==
    [e EXCEPT !.R_ = gnss.utm_pose_.R,
              !.p_ = gnss.utm_pose_.p,
              !.first_gnss_ = FALSE,
              !.current_time_ = gnss.unix_time_]

\* ObserveGps testing the heading before the first-fix branch
ObserveGps_HeadingFirst(e, o, gnss) ==
    IF ~gnss.heading_valid_ THEN [eskf |-> e, ok |-> FALSE]
    ELSE IF e.first_gnss_ THEN [eskf |-> FirstGnss(e, gnss), ok |-> TRUE]
    ELSE [eskf |-> ObserveSE3(e, o, gnss.utm_pose_, gnss_pos_noise_, gnss_ang_noise_),
          ok |-> TRUE]

\* ObserveGps without the heading test
ObserveGps_IgnoresHeading(e, o, gnss) ==
    IF e.first_gnss_ THEN [eskf |-> FirstGnss(e, gnss), ok |-> TRUE]
    ELSE [eskf |-> ObserveSE3(e, o, gnss.utm_pose_, gnss_pos_noise_, gnss_ang_noise_),
          ok |-> TRUE]

\* bool ESKF::ObserveGps(const GNSS&)
ObserveGps(e, o, gnss) ==
    IF e.first_gnss_ THEN [eskf |-> FirstGnss(e, gnss), ok |-> TRUE]
    ELSE IF ~gnss.heading_valid_ THEN [eskf |-> e, ok |-> FALSE]
    ELSE [eskf |-> ObserveSE3(e, o, gnss.utm_pose_, gnss_pos_noise_, gnss_ang_noise_),
          ok |-> TRUE]

\* bool ESKF::ObservePositionOnly(const GNSS&)
ObservePositionOnly(e, o, gnss) ==
    IF e.first_gnss_ THEN [eskf |-> FirstGnss(e, gnss), ok |-> TRUE]
    ELSE [eskf |-> ObservePositionOnlySE3(e, o, gnss.utm_pose_, gnss_pos_noise_),
          ok |-> TRUE]

(***************************************************************************)
(* Inputs                                                                  *)
(***************************************************************************)
IMU(t, gyro, acce) == [timestamp_ |-> t, gyro_ |-> gyro, acce_ |-> acce]

\* GNSS(unix_time, status, lat_lon_alt, heading, heading_valid) as TxtIO builds
\* it: the pose is not filled in yet
GNSS(t, lat_lon_alt, heading, valid) ==
    [unix_time_ |-> t, lat_lon_alt_ |-> lat_lon_alt, heading_ |-> heading,
     heading_valid_ |-> valid, utm_pose_ |-> [p |-> 0, R |-> 0]]

\* a fix whose pose is filled in: after ConvertGps2UTM and removal of the origin
WithPose(gnss, p, R) == [gnss EXCEPT !.utm_pose_ = [p |-> p, R |-> R]]

\* one filter operation, as recorded in the history
Call(op, via, arg, pre, r) ==
    [op |-> op, via |-> via, arg |-> arg, pre |-> pre, post |-> r.eskf, ok |-> r.ok]

(***************************************************************************)
(* The pipelines before their first record                                 *)
(***************************************************************************)
\* RunRealtimeMode: locals after InitializeESKF succeeded
InitialRealtime ==
    [imu_inited        |-> TRUE,
     gnss_inited       |-> FALSE,
     pending_gps_queue |-> <<>>,
     first_gnss_set    |-> FALSE,
     origin            |-> 0,
     latest_gps_pos    |-> 0,
     has_latest_gps    |-> FALSE,
     fout              |-> <<>>]

\* RunOfflineMode: the command line flags and the parsed log it is given, and
\* its data manager and processor before anything is loaded
OfflineRun(flags, log) ==
    [phase                 |-> "start",
     gps_time_offset       |-> flags.gps_time_offset,
     enable_turn_detection |-> flags.enable_turn_detection,
     imu_data              |-> log.imu_data,
     gps_data              |-> log.gps_data,
     gps_with_timekey      |-> log.gps_with_timekey,
     nzz_data              |-> log.nzz_data,
     matched_heading_data_ |-> <<>>,
     all_data_             |-> <<>>,
     detected_turns        |-> <<>>,
     turn_segments_        |-> <<>>,
     first_gps_processed_  |-> FALSE,
     origin_               |-> 0,
     fout                  |-> <<>>]

\* no offline run
InitialOffline ==
    [OfflineRun([gps_time_offset |-> 0, enable_turn_detection |-> FALSE],
                [imu_data |-> <<>>, gps_data |-> <<>>, gps_with_timekey |-> <<>>,
                 nzz_data |-> <<>>])
     EXCEPT !.phase = "idle"]

\* main() with its flags read: txt_path is "" when the flag is empty, "missing"
\* when the file it names cannot be opened and "log" when it can; returned is
\* the value main returns, once it has
Main(txt_path, offline_mode) ==
    [txt_path |-> txt_path, offline_mode |-> offline_mode,
     returned |-> [done |-> FALSE, value |-> 0]]

\* a pipeline entered with a log that opens
InitialMain == Main("log", FALSE)

\* a TurnDetector after Initialize: no heading sample, no rate, no segment.
\* added is the history of the samples given to it, order the order its sort
\* left them in, emitted the history of what made it record each segment
InitialTurnDetector ==
    [phase           |-> "initialized",
     in_turn_        |-> FALSE,
     in_end_timing_  |-> FALSE,
     added           |-> <<>>,
     heading_data_   |-> <<>>,
     order           |-> <<>>,
     turn_rates_     |-> <<>>,
     detected_turns_ |-> <<>>,
     emitted         |-> <<>>]

\* a TxtIO after construction: both pending slots invalid (their other members
\* are not initialized and not read while invalid), no pending flag, no time
\* key seen.  records is the history of the records handled; imus, gnss,
\* gps_timekey, nzzs and fbks are what was handed to imu_proc_, gnss_proc_,
\* gps_timekey_proc_, nzz_proc_ and fbk_proc_
InitialTxtIO ==
    [pending_acc_         |-> [valid |-> FALSE],
     pending_gyr_         |-> [valid |-> FALSE],
     pending_flag_        |-> [timestamp_ |-> 0],
     pending_flag_valid_  |-> FALSE,
     processed_nzz_times_ |-> {},
     imus                 |-> <<>>,
     gnss                 |-> <<>>,
     gps_timekey          |-> <<>>,
     nzzs                 |-> <<>>,
     fbks                 |-> <<>>,
     records              |-> <<>>]

(***************************************************************************)
(* SpecESKF: a bare filter driven through its public operations, in any    *)
(* order and with any timestamps                                           *)
(***************************************************************************)
ApiOptions ==
    { [DefaultOptions EXCEPT !.enable_time_compensation_ = tc,
                             !.update_bias_gyro_ = ug,
                             !.update_bias_acce_ = ua] :
        <<tc, ug, ua>> \in { <<FALSE, TRUE, TRUE>>, <<TRUE, FALSE, TRUE>>,
                             <<TRUE, TRUE, FALSE>>, <<FALSE, FALSE, FALSE>> } }

ApiImus == { IMU(0, 0, 0), IMU(1, 1, 2), IMU(2, 1, 2), IMU(8, 1, 2) }

ApiFixes == { WithPose(GNSS(1, 112, 45, TRUE), 12, 45),
              WithPose(GNSS(2, 100, 0, FALSE), 0, 0) }

InitESKF ==
    /\ options \in ApiOptions
    /\ eskf = InitialESKF
    /\ rt = InitialRealtime
    /\ off = InitialOffline
    /\ calls = <<>>
    /\ events = <<>>
    /\ td = InitialTurnDetector
    /\ io = InitialTxtIO
    /\ main = InitialMain

DoPredict ==
    /\ Len(calls) < MaxCalls
    /\ \E imu \in ApiImus :
          LET r == Predict(eskf, options, imu)
          IN  /\ eskf' = r.eskf
              /\ calls' = Append(calls, Call("Predict", "api", imu, eskf, r))
    /\ UNCHANGED <<options, rt, off, events, td, io, main>>

DoObserveGps ==
    /\ Len(calls) < MaxCalls
    /\ \E gnss \in ApiFixes :
          LET r == ObserveGps(eskf, options, gnss)
          IN  /\ eskf' = r.eskf
              /\ calls' = Append(calls, Call("ObserveGps", "api", gnss, eskf, r))
    /\ UNCHANGED <<options, rt, off, events, td, io, main>>

DoObservePositionOnly ==
    /\ Len(calls) < MaxCalls
    /\ \E gnss \in ApiFixes :
          LET r == ObservePositionOnly(eskf, options, gnss)
          IN  /\ eskf' = r.eskf
              /\ calls' = Append(calls, Call("ObservePositionOnly", "api", gnss, eskf, r))
    /\ UNCHANGED <<options, rt, off, events, td, io, main>>

NextESKF == DoPredict \/ DoObserveGps \/ DoObservePositionOnly

SpecESKF == InitESKF /\ [][NextESKF]_vars

(***************************************************************************)
(* SpecBias: a bare filter with every setting of the two bias switches,    *)
(* given fixes far enough from its position for an update to correct the   *)
(* biases and the gravity                                                  *)
(***************************************************************************)
BiasOptions ==
    { [DefaultOptions EXCEPT !.update_bias_gyro_ = ug, !.update_bias_acce_ = ua] :
        ug, ua \in BOOLEAN }

BiasFixes == { WithPose(GNSS(2, 100, 0, TRUE), 0, 0),
               WithPose(GNSS(2, 164, 45, TRUE), 64, 45) }

InitBias ==
    /\ options \in BiasOptions
    /\ eskf = InitialESKF
    /\ rt = InitialRealtime
    /\ off = InitialOffline
    /\ calls = <<>>
    /\ events = <<>>
    /\ td = InitialTurnDetector
    /\ io = InitialTxtIO
    /\ main = InitialMain

BiasImus == { IMU(1, 1, 2), IMU(2, 1, 2) }

BiasPredict ==
    /\ Len(calls) < MaxCalls
    /\ \E imu \in BiasImus :
          LET r == Predict(eskf, options, imu)
          IN  /\ eskf' = r.eskf
              /\ calls' = Append(calls, Call("Predict", "api", imu, eskf, r))
    /\ UNCHANGED <<options, rt, off, events, td, io, main>>

BiasObserveGps ==
    /\ Len(calls) < MaxCalls
    /\ \E gnss \in BiasFixes :
          LET r == ObserveGps(eskf, options, gnss)
          IN  /\ eskf' = r.eskf
              /\ calls' = Append(calls, Call("ObserveGps", "api", gnss, eskf, r))
    /\ UNCHANGED <<options, rt, off, events, td, io, main>>

BiasObservePositionOnly ==
    /\ Len(calls) < MaxCalls
    /\ \E gnss \in BiasFixes :
          LET r == ObservePositionOnly(eskf, options, gnss)
          IN  /\ eskf' = r.eskf
              /\ calls' = Append(calls, Call("ObservePositionOnly", "api", gnss, eskf, r))
    /\ UNCHANGED <<options, rt, off, events, td, io, main>>

NextBias == BiasPredict \/ BiasObserveGps \/ BiasObservePositionOnly

SpecBias == InitBias /\ [][NextBias]_vars

(***************************************************************************)
(* Claims about the filter                                                 *)
(***************************************************************************)
CallIdx == 1..Len(calls)

IsObserve(c) == c.op \in {"ObserveGps", "ObservePositionOnly"}

\* the timestamp Predict works with: the sample's, after the optional shift
ShiftedTime(c) ==
    IF options.enable_time_compensation_
    THEN c.arg.timestamp_ + options.fixed_time_delay_
    ELSE c.arg.timestamp_

PredictDt(c) == ShiftedTime(c) - c.pre.current_time_

\* C8: Predict's time guards.  With dt = t_imu - current_time (after the optional
\* time shift): dt < 0 returns failure and changes nothing; dt > 5 imu_dt returns
\* failure, sets current_time = t_imu and changes nothing else; 0 <= dt <= 5 imu_dt
\* returns success and ends with current_time = t_imu.
C8_PredictTimeGuards ==
    \A i \in CallIdx :
        LET c == calls[i] IN
        c.op = "Predict" =>
            /\ PredictDt(c) < 0 => (~c.ok /\ c.post = c.pre)
            /\ PredictDt(c) > 5 * options.imu_dt_ =>
                    (~c.ok /\ c.post = [c.pre EXCEPT !.current_time_ = ShiftedTime(c)])
            /\ (PredictDt(c) >= 0 /\ PredictDt(c) <= 5 * options.imu_dt_) =>
                    (c.ok /\ c.post.current_time_ = ShiftedTime(c))

\* a history holding an early sample, a session gap and a propagation at dt = 5 imu_dt
C8_Witness ==
    /\ \E i \in CallIdx : calls[i].op = "Predict" /\ PredictDt(calls[i]) < 0
    /\ \E i \in CallIdx : calls[i].op = "Predict" /\ PredictDt(calls[i]) > 5 * options.imu_dt_
                           /\ calls[i].post # calls[i].pre
    /\ \E i \in CallIdx : calls[i].op = "Predict" /\ PredictDt(calls[i]) = 5 * options.imu_dt_
                           /\ calls[i].post.cov_ # calls[i].pre.cov_

\* C9: the first fix given to ObserveGps or ObservePositionOnly sets R, p and
\* current_time from the fix, marks the filter initialized, changes nothing else and
\* returns success, whatever its heading-valid flag; it happens once per filter.
C9_FirstFixInitializes ==
    \A i \in CallIdx :
        LET c == calls[i] IN
        /\ (IsObserve(c) /\ c.pre.first_gnss_) =>
                /\ c.ok
                /\ c.post = [c.pre EXCEPT !.R_ = c.arg.utm_pose_.R,
                                          !.p_ = c.arg.utm_pose_.p,
                                          !.current_time_ = c.arg.unix_time_,
                                          !.first_gnss_ = FALSE]
        /\ (IsObserve(c) /\ c.pre.first_gnss_) =>
                \A j \in CallIdx : (j # i /\ IsObserve(calls[j])) =>
                    (j > i /\ ~calls[j].pre.first_gnss_)
        /\ ~c.pre.first_gnss_ => ~c.post.first_gnss_
        /\ ~IsObserve(c) => (c.post.first_gnss_ = c.pre.first_gnss_)

\* a first fix with an invalid heading, on a filter that has already propagated,
\* followed by a second fix
C9_Witness ==
    \E i, j \in CallIdx :
        /\ i < j
        /\ IsObserve(calls[i]) /\ calls[i].pre.first_gnss_
        /\ ~calls[i].arg.heading_valid_
        /\ calls[i].pre.cov_ # InitialESKF.cov_
        /\ calls[i].post.p_ # calls[i].pre.p_
        /\ IsObserve(calls[j])

\* C10: on an initialized filter, ObserveGps with an invalid heading changes nothing:
\* nominal state, error state, covariance and current_time are as before the call.
C10_InvalidHeadingSkipped ==
    \A i \in CallIdx :
        LET c == calls[i] IN
        (c.op = "ObserveGps" /\ ~c.pre.first_gnss_ /\ ~c.arg.heading_valid_) =>
            c.post = c.pre

\* such a call where the fix disagrees with the filter in position and heading
C10_Witness ==
    \E i \in CallIdx :
        LET c == calls[i] IN
        /\ c.op = "ObserveGps" /\ ~c.pre.first_gnss_ /\ ~c.arg.heading_valid_
        /\ c.arg.utm_pose_.p # c.pre.p_
        /\ c.arg.utm_pose_.R # c.pre.R_
        /\ ~c.ok

\* C11: on an initialized filter, ObservePositionOnly leaves the attitude as it
\* was: R after the call equals R before the call, for every fix.
C11_PositionOnlyKeepsAttitude ==
    \A i \in CallIdx :
        LET c == calls[i] IN
        (c.op = "ObservePositionOnly" /\ ~c.pre.first_gnss_) => c.post.R_ = c.pre.R_

\* C12: the error state is zero after every completed observation, and in every
\* state between filter operations.
C12_ErrorStateZero ==
    /\ eskf.dx_ = Zero6
    /\ \A i \in CallIdx : calls[i].post.dx_ = Zero6

\* a Kalman update that corrected the nominal state, with a propagation after it
C12_Witness ==
    \E i, j \in CallIdx :
        /\ i < j
        /\ IsObserve(calls[i]) /\ ~calls[i].pre.first_gnss_ /\ calls[i].ok
        /\ calls[i].post.p_ # calls[i].pre.p_
        /\ calls[j].op = "Predict" /\ calls[j].ok

\* the filter an observation of the history leaves when it is run from the same
\* state with the same fix under the options o
Reobserve(c, o) ==
    IF c.op = "ObserveGps" THEN ObserveGps(c.pre, o, c.arg).eskf
    ELSE ObservePositionOnly(c.pre, o, c.arg).eskf

\* the options with the two bias switches set
WithBiasSwitches(gyro, acce) ==
    [options EXCEPT !.update_bias_gyro_ = gyro, !.update_bias_acce_ = acce]

\* C27: with update_bias_gyro_ false no ObserveGps or ObservePositionOnly
\* changes bg_, with update_bias_acce_ false none changes ba_, and the gravity
\* every one of them leaves is the same whatever the two switches are.
C27_BiasSwitches ==
    \A i \in CallIdx :
        LET c == calls[i] IN
        IsObserve(c) =>
            /\ ~options.update_bias_gyro_ => c.post.bg_ = c.pre.bg_
            /\ ~options.update_bias_acce_ => c.post.ba_ = c.pre.ba_
            /\ \A gyro, acce \in BOOLEAN :
                   Reobserve(c, WithBiasSwitches(gyro, acce)).g_ = c.post.g_

\* a Kalman update with both switches off that corrected the gravity and would
\* have corrected both biases with the switches on
C27_Witness ==
    /\ ~options.update_bias_gyro_ /\ ~options.update_bias_acce_
    /\ \E i \in CallIdx :
          LET c == calls[i] IN
          /\ IsObserve(c) /\ ~c.pre.first_gnss_ /\ c.ok
          /\ c.post.g_ # c.pre.g_
          /\ Reobserve(c, WithBiasSwitches(TRUE, TRUE)).bg_ # c.pre.bg_
          /\ Reobserve(c, WithBiasSwitches(TRUE, TRUE)).ba_ # c.pre.ba_

\* C28: a Predict whose dt is 0 succeeds and leaves p, v, R, bg, ba, g and
\* current_time as they were.
C28_PredictZeroDt ==
    \A i \in CallIdx :
        LET c == calls[i] IN
        (c.op = "Predict" /\ PredictDt(c) = 0) =>
            /\ c.ok
            /\ c.post.p_ = c.pre.p_ /\ c.post.v_ = c.pre.v_ /\ c.post.R_ = c.pre.R_
            /\ c.post.bg_ = c.pre.bg_ /\ c.post.ba_ = c.pre.ba_ /\ c.post.g_ = c.pre.g_
            /\ c.post.current_time_ = c.pre.current_time_

\* two consecutive Predicts with the same sample on a moving filter: the second
\* has dt = 0, and it did propagate the covariance
C28_Witness ==
    \E i \in CallIdx :
        /\ i > 1
        /\ calls[i].op = "Predict" /\ calls[i - 1].op = "Predict" /\ calls[i - 1].ok
        /\ calls[i].arg = calls[i - 1].arg
        /\ PredictDt(calls[i]) = 0
        /\ calls[i].pre.v_ # 0
        /\ calls[i].post.cov_ # calls[i].pre.cov_

\* a rotation about the modelled axis: an angle of [0, 360)
ProperRotation(R) == R \in 0..(FullTurn - 1)

\* the three writes of R_: R_ * SO3::exp((gyro - bg_) dt) in an accepted Predict,
\* R_ * SO3::exp(dx_ theta) in UpdateAndReset, the fix's rotation at the first fix
PredictWrite(c) ==
    /\ c.op = "Predict" /\ c.ok
    /\ c.post.R_ = Compose(c.pre.R_, (ApplyPhoneInstallCorrection(c.arg).gyro_ - c.pre.bg_)
                                        * PredictDt(c))

UpdateWrite(c) ==
    /\ IsObserve(c) /\ ~c.pre.first_gnss_ /\ c.ok
    /\ c.post.R_ = Compose(c.pre.R_, LogDiff(c.pre.R_, c.post.R_))

FirstFixWrite(c) ==
    /\ IsObserve(c) /\ c.pre.first_gnss_
    /\ c.post.R_ = c.arg.utm_pose_.R

InProjectionZone(lat_lon_alt) == lat_lon_alt >= 0

\* bool ConvertGps2UTM(GNSS&, antenna_pos, antenna_angle): fills in the pose,
\* or fails when the point lies outside a valid projection zone
ConvertGps2UTM(gnss, antenna_pos, antenna_angle) ==
    IF ~InProjectionZone(gnss.lat_lon_alt_)
    THEN [gnss |-> gnss, ok |-> FALSE]
    ELSE [gnss |-> WithPose(gnss, gnss.lat_lon_alt_ + antenna_pos,
                            NormAngle(gnss.heading_ - antenna_angle)),
          ok |-> TRUE]

(***************************************************************************)
(* Realtime pipeline: RunRealtimeMode and its two callbacks                *)
(***************************************************************************)
MaxEvents == 3      \* records handed to the realtime pipeline

GpsTooOld == 125    \* 5.0 s: a fix older than this on arrival is skipped

\* NavState ESKF::GetNominalState()
GetNominalState(e) ==
    [timestamp_ |-> e.current_time_, p_ |-> e.p_, v_ |-> e.v_, R_ |-> e.R_,
     bg_ |-> e.bg_, ba_ |-> e.ba_]

\* save_result: one row of the trajectory file
save_result(save_state, gps_pos, has_gps) ==
    [state |-> save_state, gps_pos |-> IF has_gps THEN gps_pos ELSE 0,
     has_gps |-> has_gps]

\* the loop of the IMU callback over the pending queue; current_eskf_time is the
\* value read once, right after Predict
RECURSIVE DrainPending(_, _, _, _, _)
DrainPending(e, o, queue, current_eskf_time, cs) ==
    IF queue = <<>>
    THEN [eskf |-> e, queue |-> queue, calls |-> cs]
    ELSE LET catch_gps == Head(queue)
         IN  IF current_eskf_time >= catch_gps.unix_time_
             THEN LET r == ObserveGps(e, o, catch_gps)
                  IN  DrainPending(r.eskf, o, Tail(queue), current_eskf_time,
                                   Append(cs, Call("ObserveGps", "drain", catch_gps, e, r)))
             ELSE [eskf |-> e, queue |-> queue, calls |-> cs]

\* one record handed to the pipeline, as kept in the history
Event(kind, arg, outcome, clock, d, ncalls) ==
    [kind |-> kind, arg |-> arg, outcome |-> outcome,
     current_eskf_time |-> clock,
     queue_pre |-> rt.pending_gps_queue, queue_post |-> d,
     first |-> Len(calls) + 1, last |-> ncalls]

\* the records the reader hands to the callbacks
RtImus == { IMU(1, 1, 2), IMU(3, 1, 2), IMU(128, 1, 2) }

RtFixes ==
    { GNSS(t, f[1], f[2], f[3]) :
        t \in {0, 1, 2},
        f \in { <<100, 0, TRUE>>, <<112, 45, TRUE>>, <<112, 45, FALSE>> } }
    \cup { GNSS(1, -1, 0, TRUE) }

InitRealtime ==
    /\ options = DefaultOptions
    /\ eskf = InitialESKF
    /\ rt = InitialRealtime
    /\ off = InitialOffline
    /\ calls = <<>>
    /\ events = <<>>
    /\ td = InitialTurnDetector
    /\ io = InitialTxtIO
    /\ main = InitialMain

\* io.SetIMUProcessFunc([&](const sad::IMU& imu) {...}): the whole callback
IMUProcessFunc ==
    /\ Len(events) < MaxEvents
    /\ \E imu \in RtImus :
          IF ~rt.gnss_inited
          THEN /\ events' = Append(events,
                      Event("imu", imu, "waiting", eskf.current_time_,
                            rt.pending_gps_queue, Len(calls)))
               /\ UNCHANGED <<eskf, rt, calls>>
          ELSE LET r == Predict(eskf, options, imu)
                   current_state == GetNominalState(r.eskf)
                   current_eskf_time == current_state.timestamp_
                   d == DrainPending(r.eskf, options, rt.pending_gps_queue,
                                     current_eskf_time,
                                     Append(calls, Call("Predict", "imu", imu, eskf, r)))
               IN  /\ eskf' = d.eskf
                   /\ rt' = [rt EXCEPT
                          !.pending_gps_queue = d.queue,
                          !.fout = Append(@, save_result(current_state,
                                              rt.latest_gps_pos, rt.has_latest_gps))]
                   /\ calls' = d.calls
                   /\ events' = Append(events,
                          Event("imu", imu, "predicted", current_eskf_time,
                                d.queue, Len(d.calls)))
    /\ UNCHANGED <<options, off, td, io, main>>

\* .SetGNSSProcessFunc([&](const sad::GNSS& gnss) {...}): the whole callback
GNSSProcessFunc ==
    /\ Len(events) < MaxEvents
    /\ \E gnss \in RtFixes :
          LET current_eskf_time == GetNominalState(eskf).timestamp_
              conv   == ConvertGps2UTM(gnss, 0, 0)
              origin == IF rt.first_gnss_set THEN rt.origin ELSE conv.gnss.utm_pose_.p
              gps_obs_position == conv.gnss.utm_pose_.p - origin
              gnss_convert == WithPose(conv.gnss, gps_obs_position, conv.gnss.utm_pose_.R)
              seen == [rt EXCEPT !.origin = origin, !.first_gnss_set = TRUE,
                                 !.latest_gps_pos = gps_obs_position,
                                 !.has_latest_gps = TRUE, !.gnss_inited = TRUE]
              skip(why) ==
                  /\ events' = Append(events,
                         Event("gnss", gnss, why, current_eskf_time,
                               rt.pending_gps_queue, Len(calls)))
                  /\ UNCHANGED <<eskf, rt, calls>>
          IN  IF ~rt.imu_inited THEN skip("no_imu")
              ELSE IF gnss.unix_time_ < current_eskf_time - GpsTooOld THEN skip("too_old")
              ELSE IF ~conv.ok THEN skip("not_converted")
              ELSE IF current_eskf_time >= gnss_convert.unix_time_
              THEN LET r == ObserveGps(eskf, options, gnss_convert)
                   IN  /\ eskf' = r.eskf
                       /\ rt' = seen
                       /\ calls' = Append(calls,
                              Call("ObserveGps", "arrival", gnss_convert, eskf, r))
                       /\ events' = Append(events,
                              Event("gnss", gnss, "applied", current_eskf_time,
                                    rt.pending_gps_queue, Len(calls) + 1))
              ELSE /\ rt' = [seen EXCEPT
                          !.pending_gps_queue = Append(@, gnss_convert)]
                   /\ events' = Append(events,
                          Event("gnss", gnss, "queued", current_eskf_time,
                                Append(rt.pending_gps_queue, gnss_convert), Len(calls)))
                   /\ UNCHANGED <<eskf, calls>>
    /\ UNCHANGED <<options, off, td, io, main>>

NextRealtime == IMUProcessFunc \/ GNSSProcessFunc

SpecRealtime == InitRealtime /\ [][NextRealtime]_vars

(***************************************************************************)
(* Claims about the realtime pipeline                                      *)
(***************************************************************************)
EventIdx == 1..Len(events)

\* the timestamp of the record a filter operation was given
AppliedTime(c) == IF c.op = "Predict" THEN c.arg.timestamp_ ELSE c.arg.unix_time_

\* the operations that acted on the filter: a propagation, an initialisation
\* by the first fix, or a Kalman update
Acted == { i \in CallIdx : calls[i].ok }

\* C4: in the realtime pipeline the timestamps of the events applied to the
\* filter, in the order applied (the IMU timestamp of each Predict, the fix
\* timestamp of each ObserveGps), never decrease.
C4_AppliedTimestampsNonDecreasing ==
    \A i, j \in Acted : i < j => AppliedTime(calls[i]) <= AppliedTime(calls[j])

\* C5: a fix that arrives with a timestamp greater than the filter's current_time
\* is not applied on arrival but appended to the pending queue, and whenever
\* ObserveGps is applied to a fix, on arrival or from the queue, the fix's
\* timestamp is <= the filter's current_time at that moment.
C5_FixNeverAheadOfFilterClock ==
    /\ \A k \in EventIdx :
          LET ev == events[k]
          IN  (/\ ev.kind = "gnss"
               /\ ev.arg.unix_time_ > ev.current_eskf_time
               /\ ev.outcome # "not_converted")
              => /\ ev.outcome = "queued"
                 /\ ev.last < ev.first
                 /\ Len(ev.queue_post) = Len(ev.queue_pre) + 1
                 /\ ev.queue_post[Len(ev.queue_post)].unix_time_ = ev.arg.unix_time_
    /\ \A i \in CallIdx :
          calls[i].op = "ObserveGps"
              => calls[i].arg.unix_time_ <= calls[i].pre.current_time_

\* the fixes an IMU event took from the queue, in the order ObserveGps got them
Drained(ev) == [n \in 1..(ev.last - ev.first) |-> calls[ev.first + n]]

\* C6: on each IMU event, after Predict, queued fixes leave the head of the queue
\* in arrival order and ObserveGps is applied to each, for as long as the head's
\* timestamp is <= the filter's current_time; draining stops at the first head
\* whose timestamp is > current_time, and that fix stays queued.
C6_DrainWhileHeadNotAhead ==
    \A k \in EventIdx :
        LET ev == events[k]
            n  == ev.last - ev.first
        IN  (ev.kind = "imu" /\ ev.outcome = "predicted")
            => /\ calls[ev.first].op = "Predict"
               /\ n <= Len(ev.queue_pre)
               /\ ev.queue_post = SubSeq(ev.queue_pre, n + 1, Len(ev.queue_pre))
               /\ \A m \in 1..n :
                     /\ Drained(ev)[m].op = "ObserveGps"
                     /\ Drained(ev)[m].arg = ev.queue_pre[m]
                     /\ ev.queue_pre[m].unix_time_ <= Drained(ev)[m].pre.current_time_
               /\ ev.queue_post # <<>>
                     => Head(ev.queue_post).unix_time_ > calls[ev.last].post.current_time_

\* C7: no stale fix is applied: at the moment ObserveGps is applied to a fix, on
\* arrival or from the queue, current_time - t_gnss is at most 5 s.
C7_NoStaleFixApplied ==
    \A i \in Acted :
        calls[i].op = "ObserveGps"
            => calls[i].pre.current_time_ - calls[i].arg.unix_time_ <= GpsTooOld

(***************************************************************************)
(* Offline pipeline: OfflineDataManager                                    *)
(***************************************************************************)
\* a time key "date time" as its '-' separated and ':' separated parts
TimeKey(date, time) == [date |-> date, time |-> time]

\* a part of one character gets a leading zero
PadPart(part) == IF Len(part) = 1 THEN "0" \o part ELSE part

\* std::string NormalizeDatePart(date_str): YYYY-M-D -> YYYY-MM-DD
NormalizeDatePart(date) ==
    IF Len(date) # 3 THEN date
    ELSE <<date[1], PadPart(date[2]), PadPart(date[3])>>

\* std::string NormalizeTimePart(time_str): H:M:S -> HH:MM:SS
NormalizeTimePart(time) ==
    IF Len(time) # 3 THEN time
    ELSE <<PadPart(time[1]), PadPart(time[2]), PadPart(time[3])>>

\* std::string NormalizeTimeKey(time_key): a key without '-' or without ':'
\* is returned as it is
NormalizeTimeKey(time_key) ==
    IF Len(time_key.date) < 2 \/ Len(time_key.time) < 2 THEN time_key
    ELSE TimeKey(NormalizeDatePart(time_key.date), NormalizeTimePart(time_key.time))

NZZ(time_key, heading) == [time_key_ |-> time_key, heading_ |-> heading]

GPSWithTimeKey(gnss, time_key) == [gnss_data_ |-> gnss, time_key_ |-> time_key]

\* the last element of nzz_data that matches instead of the first
RECURSIVE FirstMatch_Last(_, _, _)
FirstMatch_Last(nzz_data, k, normalized) ==
    IF nzz_data = <<>> THEN [found |-> FALSE]
    ELSE LET nzz == nzz_data[Len(nzz_data)]
             nk  == IF normalized THEN NormalizeTimeKey(nzz.time_key_) ELSE nzz.time_key_
         IN  IF nk = k THEN [found |-> TRUE, nzz |-> nzz]
             ELSE FirstMatch_Last(SubSeq(nzz_data, 1, Len(nzz_data) - 1), k, normalized)

\* the first element of nzz_data with key(its time key) = k, or none
RECURSIVE FirstMatch(_, _, _)
FirstMatch(nzz_data, k, normalized) ==
    IF nzz_data = <<>> THEN [found |-> FALSE]
    ELSE LET nzz == Head(nzz_data)
             nk  == IF normalized THEN NormalizeTimeKey(nzz.time_key_) ELSE nzz.time_key_
         IN  IF nk = k THEN [found |-> TRUE, nzz |-> nzz]
             ELSE FirstMatch(Tail(nzz_data), k, normalized)

\* the orders std::sort may leave a vector in when its elements compare by the
\* keys ts only: every order of the positions in which no key precedes a smaller
\* one (elements with equal keys in any order)
RECURSIVE SortedOrders(_, _)
SortedOrders(ts, left) ==
    IF left = {} THEN { <<>> }
    ELSE UNION { { <<i>> \o rest : rest \in SortedOrders(ts, left \ {i}) } :
                 i \in { j \in left : \A k \in left : ~(ts[k] < ts[j]) } }

\* a sort that leaves the vector as it is
SortOutcomes_Unsorted(v, ts) == { v }

SortOutcomes(v, ts) ==
    { [n \in 1..Len(v) |-> v[order[n]]] : order \in SortedOrders(ts, DOMAIN v) }

\* void MatchGPSNZZData(gps_data, nzz_data): (shifted GPS time, NZZ heading) of
\* every GPS record whose key matches, directly or after normalisation; the
\* possible values of matched_heading_data_ after its sort by timestamp
RECURSIVE MatchedPairs(_, _, _)
MatchedPairs(gps_with_timekey, nzz_data, gps_time_offset) ==
    IF gps_with_timekey = <<>> THEN <<>>
    ELSE LET gps    == Head(gps_with_timekey)
             direct == FirstMatch(nzz_data, gps.time_key_, FALSE)
             fuzzy  == FirstMatch(nzz_data, NormalizeTimeKey(gps.time_key_), TRUE)
             adjusted_gps_time == gps.gnss_data_.unix_time_ + gps_time_offset
             rest   == MatchedPairs(Tail(gps_with_timekey), nzz_data, gps_time_offset)
         IN  IF direct.found THEN <<<<adjusted_gps_time, direct.nzz.heading_>>>> \o rest
             ELSE IF fuzzy.found THEN <<<<adjusted_gps_time, fuzzy.nzz.heading_>>>> \o rest
             ELSE rest

MatchGPSNZZData(gps_with_timekey, nzz_data, gps_time_offset) ==
    LET matched == MatchedPairs(gps_with_timekey, nzz_data, gps_time_offset)
    IN  SortOutcomes(matched, [i \in DOMAIN matched |-> matched[i][1]])

\* struct TimeStampedData, built from a sample
TimeStampedIMU(imu) ==
    [timestamp |-> imu.timestamp_, type |-> "IMU_TYPE", imu_data |-> imu]

\* gps.unix_time_ += gps_time_offset_ is an addition of doubles.  With the log
\* time t ticks read as stod(ms) / 1000.0 and the flag read from "0.04" or
\* "-0.04", the sum is the double next below or next above the double of the
\* time t + offset for these t (from running the addition for t in 0..100);
\* for every other t it is that double
SumBelow(offset) ==
    IF offset = 1 THEN { 6, 9 }
    ELSE IF offset = -1
    THEN { 3, 6, 15, 18, 21, 24, 29, 35, 41, 47, 57, 69, 82, 94 }
    ELSE {}

SumAbove(offset) ==
    IF offset = 1 THEN { 5, 14, 17, 20, 23, 28, 34, 40, 46, 56, 68, 81, 93 }
    ELSE IF offset = -1 THEN { 7, 10, 13 }
    ELSE {}

\* -1, 0 or 1: where the double t + offset lies against the double of that time
SumRounding(t, offset) ==
    IF t \in SumBelow(offset) THEN -1 ELSE IF t \in SumAbove(offset) THEN 1 ELSE 0

\* struct TimeStampedData, built from a fix; src is the position of the fix in
\* gps_data, rounding the place of its double timestamp against the tick
TimeStampedGPS(gnss, src, rounding) ==
    [timestamp |-> gnss.unix_time_, type |-> "GPS_TYPE", gps_data |-> gnss, src |-> src,
     rounding |-> rounding]

\* the double timestamp operator< compares, as an integer: three per tick
SortKey(data) ==
    3 * data.timestamp + (IF data.type = "GPS_TYPE" THEN data.rounding ELSE 0)

\* ConvertToTimeStampedData without the offset
ConvertToTimeStampedData_NoOffset(imu_data, gps_data, gps_time_offset) ==
    [i \in 1..Len(imu_data) |-> TimeStampedIMU(imu_data[i])]
    \o [i \in 1..Len(gps_data) |-> TimeStampedGPS(gps_data[i], i, 0)]

\* void ConvertToTimeStampedData(imu_data, gps_data): all IMU samples, then all
\* fixes with the offset added to their time
ConvertToTimeStampedData(imu_data, gps_data, gps_time_offset) ==
    [i \in 1..Len(imu_data) |-> TimeStampedIMU(imu_data[i])]
    \o [i \in 1..Len(gps_data) |->
           TimeStampedGPS([gps_data[i] EXCEPT !.unix_time_ = @ + gps_time_offset], i,
                          SumRounding(gps_data[i].unix_time_, gps_time_offset))]

(***************************************************************************)
(* TurnDetector.  Turn rates are kept in fixed point: RateScale units are  *)
(* one degree per second, and an accumulated angle of RateScale units is   *)
(* one degree.                                                             *)
(***************************************************************************)
TicksPerSecond == 25    \* 1 / imu_dt_: one tick is 0.04 s

RateScale == 60         \* fixed point denominator of turn rates and angles

Abs(x) == IF x < 0 THEN -x ELSE x

\* TurnDetector::Config as RunOfflineMode sets it, window size from Config()
TurnConfig ==
    [start_turn_rate_threshold   |-> 3 * RateScale,
     end_turn_rate_threshold     |-> (3 * RateScale) \div 2,
     end_duration_threshold      |-> 3 * TicksPerSecond,
     accumulated_angle_threshold |-> 30 * RateScale,
     smoothing_window_size       |-> 5]

HeadingDataPoint(t, h) == [timestamp |-> t, heading |-> h]

TurnRatePoint(t, rate) == [timestamp |-> t, turn_rate |-> rate]

\* AddHeadingData keeping the heading as given
AddHeadingData_Raw(heading_data, timestamp, heading) ==
    Append(heading_data, HeadingDataPoint(timestamp, heading))

\* void TurnDetector::AddHeadingData(timestamp, heading): heading into [0, 360)
AddHeadingData(heading_data, timestamp, heading) ==
    Append(heading_data, HeadingDataPoint(timestamp, heading % FullTurn))

\* NormalizeHeadingDiff without the wrap
NormalizeHeadingDiff_NoWrap(h1, h2) == h2 - h1

\* double TurnDetector::NormalizeHeadingDiff(h1, h2)
NormalizeHeadingDiff(h1, h2) ==
    LET diff == h2 - h1
    IN  IF diff > 180 THEN diff - FullTurn
        ELSE IF diff <= -180 THEN diff + FullTurn
        ELSE diff

\* void TurnDetector::CalculateTurnRates(): one rate per pair of consecutive
\* samples with dt > 0
RECURSIVE CalculateTurnRatesFrom(_, _)
CalculateTurnRatesFrom(heading_data, i) ==
    IF i > Len(heading_data) THEN <<>>
    ELSE LET curr == heading_data[i]
             prev == heading_data[i - 1]
             dt   == curr.timestamp - prev.timestamp
             dh   == NormalizeHeadingDiff(prev.heading, curr.heading)
             rest == CalculateTurnRatesFrom(heading_data, i + 1)
         IN  IF dt <= 0 THEN rest
             ELSE <<TurnRatePoint(curr.timestamp,
                                  Quot(dh * TicksPerSecond * RateScale, dt))>> \o rest

CalculateTurnRates(heading_data) ==
    IF Len(heading_data) < 2 THEN <<>> ELSE CalculateTurnRatesFrom(heading_data, 2)

RECURSIVE SumRates(_, _, _)
SumRates(turn_rates, from, to) ==
    IF from > to THEN 0
    ELSE turn_rates[from].turn_rate + SumRates(turn_rates, from + 1, to)

Max(a, b) == IF a >= b THEN a ELSE b

Min(a, b) == IF a <= b THEN a ELSE b

\* TurnDetector::SmoothTurnRates: centred moving average, timestamps kept
SmoothTurnRates(turn_rates, config) ==
    IF Len(turn_rates) < config.smoothing_window_size THEN turn_rates
    ELSE [i \in 1..Len(turn_rates) |->
            LET half  == config.smoothing_window_size \div 2
                first == Max(1, i - half)
                last  == Min(Len(turn_rates), i + half)
            IN  TurnRatePoint(turn_rates[i].timestamp,
                              Quot(SumRates(turn_rates, first, last), last - first + 1))]

RECURSIVE SumAbs(_)
SumAbs(rates) == IF rates = <<>> THEN 0 ELSE Abs(Head(rates)) + SumAbs(Tail(rates))

TurnDirection(turn_rate) == IF turn_rate > 0 THEN "left" ELSE "right"

\* RecordTurnSegment closing the segment at the sample after end_idx, where
\* there is one
RecordTurnSegment_EndsAtNext(smoothed_rates, start_idx, end_idx, accumulated_angle, turn_rates_list, turn_direction) ==
    [start_time    |-> smoothed_rates[start_idx].timestamp,
     end_time      |-> smoothed_rates[Min(end_idx + 1, Len(smoothed_rates))].timestamp,
     total_angle   |-> accumulated_angle,
     avg_turn_rate |-> IF turn_rates_list = <<>> THEN 0
                       ELSE Quot(SumAbs(turn_rates_list), Len(turn_rates_list)),
     direction     |-> turn_direction]

\* void TurnDetector::RecordTurnSegment(...): the segment appended
RecordTurnSegment(smoothed_rates, start_idx, end_idx, accumulated_angle, turn_rates_list, turn_direction) ==
    [start_time    |-> smoothed_rates[start_idx].timestamp,
     end_time      |-> smoothed_rates[end_idx].timestamp,
     total_angle   |-> accumulated_angle,
     avg_turn_rate |-> IF turn_rates_list = <<>> THEN 0
                       ELSE Quot(SumAbs(turn_rates_list), Len(turn_rates_list)),
     direction     |-> turn_direction]

\* history: what made DetectTurnSegments record a segment ("reversal",
\* "end_timing" or "end_of_stream"), the timestamp of the rate it was looking at,
\* and the timestamp of the rate that started the turn
Emission(path, fired_at, started_at) ==
    [path |-> path, fired_at |-> fired_at, started_at |-> started_at]

\* the locals of DetectTurnSegments before the first rate
DetectStart ==
    [in_turn |-> FALSE, in_end_timing |-> FALSE, turn_start_idx |-> 1,
     accumulated_angle |-> 0, turn_rates_list |-> <<>>, turn_direction |-> "",
     end_timing_start |-> 0, detected_turns |-> <<>>,
     started_at |-> 0, emitted |-> <<>>]

\* one pass of the loop of DetectTurnSegments, the end of a turn declared on the
\* first quiet sample after the end timing started, whatever the time elapsed
DetectStep_EndsWithoutWaiting(st, smoothed_rates, i, config) ==
    LET timestamp     == smoothed_rates[i].timestamp
        turn_rate     == smoothed_rates[i].turn_rate
        abs_turn_rate == Abs(turn_rate)
        dt            == timestamp - smoothed_rates[i - 1].timestamp
        angle_change  == Quot(turn_rate * dt, TicksPerSecond)
        same_direction ==
            \/ st.turn_direction = "left" /\ turn_rate > 0
            \/ st.turn_direction = "right" /\ turn_rate < 0
        pushed == [st EXCEPT !.turn_rates_list = Append(@, turn_rate)]
    IN  IF ~st.in_turn
        THEN IF abs_turn_rate > config.start_turn_rate_threshold
             THEN [st EXCEPT !.in_turn = TRUE, !.in_end_timing = FALSE,
                             !.started_at = timestamp,
                             !.turn_start_idx = i, !.accumulated_angle = 0,
                             !.turn_rates_list = <<turn_rate>>,
                             !.turn_direction = TurnDirection(turn_rate)]
             ELSE st
        ELSE IF ~st.in_end_timing
        THEN IF abs_turn_rate > config.end_turn_rate_threshold
             THEN IF i = 1 THEN pushed
                  ELSE IF same_direction
                  THEN [pushed EXCEPT !.accumulated_angle = @ + Abs(angle_change)]
                  ELSE IF abs_turn_rate > config.start_turn_rate_threshold
                  THEN [st EXCEPT
                          !.detected_turns =
                              IF st.accumulated_angle >= config.accumulated_angle_threshold
                              THEN Append(@, RecordTurnSegment(smoothed_rates,
                                       st.turn_start_idx, i - 1, st.accumulated_angle,
                                       st.turn_rates_list, st.turn_direction))
                              ELSE @,
                          !.emitted =
                              IF st.accumulated_angle >= config.accumulated_angle_threshold
                              THEN Append(@, Emission("reversal", timestamp, st.started_at))
                              ELSE @,
                          !.started_at = timestamp,
                          !.turn_start_idx = i,
                          !.accumulated_angle = Abs(angle_change),
                          !.turn_rates_list = <<turn_rate, turn_rate>>,
                          !.turn_direction = TurnDirection(turn_rate)]
                  ELSE pushed
             ELSE [st EXCEPT !.in_end_timing = TRUE, !.end_timing_start = timestamp]
        ELSE IF abs_turn_rate <= config.end_turn_rate_threshold
        THEN IF timestamp - st.end_timing_start >= 0
             THEN [st EXCEPT
                     !.detected_turns =
                         IF st.accumulated_angle >= config.accumulated_angle_threshold
                         THEN Append(@, RecordTurnSegment(smoothed_rates,
                                  st.turn_start_idx, i, st.accumulated_angle,
                                  st.turn_rates_list, st.turn_direction))
                         ELSE @,
                     !.emitted =
                         IF st.accumulated_angle >= config.accumulated_angle_threshold
                         THEN Append(@, Emission("end_timing", timestamp, st.started_at))
                         ELSE @,
                     !.in_turn = FALSE, !.in_end_timing = FALSE]
             ELSE st
        ELSE [pushed EXCEPT
                !.in_end_timing = FALSE,
                !.accumulated_angle =
                    IF i > 1 /\ same_direction THEN @ + Abs(angle_change) ELSE @]

\* one pass of the loop of DetectTurnSegments, over smoothed_rates[i]
DetectStep(st, smoothed_rates, i, config) ==
    LET timestamp     == smoothed_rates[i].timestamp
        turn_rate     == smoothed_rates[i].turn_rate
        abs_turn_rate == Abs(turn_rate)
        dt            == timestamp - smoothed_rates[i - 1].timestamp
        angle_change  == Quot(turn_rate * dt, TicksPerSecond)
        same_direction ==
            \/ st.turn_direction = "left" /\ turn_rate > 0
            \/ st.turn_direction = "right" /\ turn_rate < 0
        pushed == [st EXCEPT !.turn_rates_list = Append(@, turn_rate)]
    IN  IF ~st.in_turn
        THEN IF abs_turn_rate > config.start_turn_rate_threshold
             THEN [st EXCEPT !.in_turn = TRUE, !.in_end_timing = FALSE,
                             !.started_at = timestamp,
                             !.turn_start_idx = i, !.accumulated_angle = 0,
                             !.turn_rates_list = <<turn_rate>>,
                             !.turn_direction = TurnDirection(turn_rate)]
             ELSE st
        ELSE IF ~st.in_end_timing
        THEN IF abs_turn_rate > config.end_turn_rate_threshold
             THEN IF i = 1 THEN pushed
                  ELSE IF same_direction
                  THEN [pushed EXCEPT !.accumulated_angle = @ + Abs(angle_change)]
                  ELSE IF abs_turn_rate > config.start_turn_rate_threshold
                  THEN [st EXCEPT
                          !.detected_turns =
                              IF st.accumulated_angle >= config.accumulated_angle_threshold
                              THEN Append(@, RecordTurnSegment(smoothed_rates,
                                       st.turn_start_idx, i - 1, st.accumulated_angle,
                                       st.turn_rates_list, st.turn_direction))
                              ELSE @,
                          !.emitted =
                              IF st.accumulated_angle >= config.accumulated_angle_threshold
                              THEN Append(@, Emission("reversal", timestamp, st.started_at))
                              ELSE @,
                          !.started_at = timestamp,
                          !.turn_start_idx = i,
                          !.accumulated_angle = Abs(angle_change),
                          !.turn_rates_list = <<turn_rate, turn_rate>>,
                          !.turn_direction = TurnDirection(turn_rate)]
                  ELSE pushed
             ELSE [st EXCEPT !.in_end_timing = TRUE, !.end_timing_start = timestamp]
        ELSE IF abs_turn_rate <= config.end_turn_rate_threshold
        THEN IF timestamp - st.end_timing_start >= config.end_duration_threshold
             THEN [st EXCEPT
                     !.detected_turns =
                         IF st.accumulated_angle >= config.accumulated_angle_threshold
                         THEN Append(@, RecordTurnSegment(smoothed_rates,
                                  st.turn_start_idx, i, st.accumulated_angle,
                                  st.turn_rates_list, st.turn_direction))
                         ELSE @,
                     !.emitted =
                         IF st.accumulated_angle >= config.accumulated_angle_threshold
                         THEN Append(@, Emission("end_timing", timestamp, st.started_at))
                         ELSE @,
                     !.in_turn = FALSE, !.in_end_timing = FALSE]
             ELSE st
        ELSE [pushed EXCEPT
                !.in_end_timing = FALSE,
                !.accumulated_angle =
                    IF i > 1 /\ same_direction THEN @ + Abs(angle_change) ELSE @]

RECURSIVE DetectLoop(_, _, _, _)
DetectLoop(st, smoothed_rates, i, config) ==
    IF i > Len(smoothed_rates) THEN st
    ELSE DetectLoop(DetectStep(st, smoothed_rates, i, config), smoothed_rates, i + 1, config)

\* DetectTurnSegments emitting the pending turn at the end of the stream
\* whatever its accumulated angle
DetectRun_EmitsAnyPending(turn_rates, config) ==
    IF turn_rates = <<>> THEN [detected_turns |-> <<>>, emitted |-> <<>>]
    ELSE LET smoothed_rates == SmoothTurnRates(turn_rates, config)
             st == DetectLoop(DetectStart, smoothed_rates, 1, config)
         IN  IF st.in_turn
             THEN [detected_turns |->
                       Append(st.detected_turns,
                              RecordTurnSegment(smoothed_rates, st.turn_start_idx,
                                                Len(smoothed_rates), st.accumulated_angle,
                                                st.turn_rates_list, st.turn_direction)),
                   emitted |->
                       Append(st.emitted,
                              Emission("end_of_stream",
                                       smoothed_rates[Len(smoothed_rates)].timestamp,
                                       st.started_at))]
             ELSE [detected_turns |-> st.detected_turns, emitted |-> st.emitted]

\* void TurnDetector::DetectTurnSegments(): detected_turns_ afterwards, with the
\* history of what recorded each segment
DetectRun(turn_rates, config) ==
    IF turn_rates = <<>> THEN [detected_turns |-> <<>>, emitted |-> <<>>]
    ELSE LET smoothed_rates == SmoothTurnRates(turn_rates, config)
             st == DetectLoop(DetectStart, smoothed_rates, 1, config)
         IN  IF st.in_turn /\ st.accumulated_angle >= config.accumulated_angle_threshold
             THEN [detected_turns |->
                       Append(st.detected_turns,
                              RecordTurnSegment(smoothed_rates, st.turn_start_idx,
                                                Len(smoothed_rates), st.accumulated_angle,
                                                st.turn_rates_list, st.turn_direction)),
                   emitted |->
                       Append(st.emitted,
                              Emission("end_of_stream",
                                       smoothed_rates[Len(smoothed_rates)].timestamp,
                                       st.started_at))]
             ELSE [detected_turns |-> st.detected_turns, emitted |-> st.emitted]

DetectTurnSegments(turn_rates, config) == DetectRun(turn_rates, config).detected_turns

\* void TurnDetector::Finalize(): the possible values of detected_turns_, one
\* for each order the sort of heading_data_ may produce
Finalize(heading_data, config) ==
    IF Len(heading_data) < 2 THEN { <<>> }
    ELSE { DetectTurnSegments(CalculateTurnRates(sorted), config) :
             sorted \in SortOutcomes(heading_data,
                                     [i \in DOMAIN heading_data |-> heading_data[i].timestamp]) }

(***************************************************************************)
(* Offline pipeline: OfflineESKFProcessor                                  *)
(***************************************************************************)
\* void SetTurnSegments(segments): (start_time, end_time) of each segment
SetTurnSegments(segments) ==
    [i \in 1..Len(segments) |-> <<segments[i].start_time, segments[i].end_time>>]

\* IsInTurnSegment without the two end points of a segment
IsInTurnSegment_Open(turn_segments, timestamp) ==
    \E i \in 1..Len(turn_segments) :
        timestamp > turn_segments[i][1] /\ timestamp < turn_segments[i][2]

\* bool IsInTurnSegment(timestamp)
IsInTurnSegment(turn_segments, timestamp) ==
    \E i \in 1..Len(turn_segments) :
        timestamp >= turn_segments[i][1] /\ timestamp <= turn_segments[i][2]

\* one element of the reorganised data, as kept in the history
Replayed(data, outcome, ncalls_before, ncalls_after) ==
    [kind |-> data.type, arg |-> data, outcome |-> outcome,
     first |-> ncalls_before + 1, last |-> ncalls_after]

\* bool ProcessIMU(imu, cov_file) and the row ProcessReorganizedData saves after
\* it; pr is the processor with the filter and the histories
ProcessIMU(pr, o, data) ==
    IF ~pr.first_gps_processed_
    THEN [pr EXCEPT !.events = Append(@, Replayed(data, "waiting",
                                                  Len(pr.calls), Len(pr.calls)))]
    ELSE LET r == Predict(pr.eskf, o, data.imu_data)
         IN  [pr EXCEPT
                !.eskf   = r.eskf,
                !.calls  = Append(@, Call("Predict", "offline", data.imu_data, pr.eskf, r)),
                !.events = Append(@, Replayed(data, IF r.ok THEN "predicted" ELSE "skipped",
                                              Len(pr.calls), Len(pr.calls) + 1)),
                !.fout   = IF r.ok
                           THEN Append(@, save_result(GetNominalState(r.eskf),
                                                      pr.latest_gps_pos, pr.has_latest_gps))
                           ELSE @]

\* bool ProcessGPS(gps, gps_pos) and what ProcessReorganizedData does after it
ProcessGPS(pr, o, data) ==
    LET gps    == data.gps_data
        conv   == ConvertGps2UTM(gps, 0, 0)
        origin == IF pr.first_gps_processed_ THEN pr.origin_ ELSE conv.gnss.utm_pose_.p
        gps_pos == conv.gnss.utm_pose_.p - origin
        gps_convert == WithPose(conv.gnss, gps_pos, conv.gnss.utm_pose_.R)
        in_turn == IsInTurnSegment(pr.turn_segments_, gps.unix_time_)
        r  == IF in_turn THEN ObservePositionOnly(pr.eskf, o, gps_convert)
                         ELSE ObserveGps(pr.eskf, o, gps_convert)
        op == IF in_turn THEN "ObservePositionOnly" ELSE "ObserveGps"
    IN  IF ~conv.ok
        THEN [pr EXCEPT !.events = Append(@, Replayed(data, "not_converted",
                                                      Len(pr.calls), Len(pr.calls)))]
        ELSE [pr EXCEPT
                !.origin_ = origin,
                !.first_gps_processed_ = TRUE,
                !.eskf   = r.eskf,
                !.calls  = Append(@, Call(op, "offline", gps_convert, pr.eskf, r)),
                !.events = Append(@, Replayed(data, IF r.ok THEN "observed" ELSE "skipped",
                                              Len(pr.calls), Len(pr.calls) + 1)),
                !.latest_gps_pos = IF r.ok THEN gps_pos ELSE @,
                !.has_latest_gps = IF r.ok THEN TRUE ELSE @]

\* the loop of ProcessReorganizedData
RECURSIVE ReplayFrom(_, _, _, _)
ReplayFrom(pr, o, data, i) ==
    IF i > Len(data) THEN pr
    ELSE ReplayFrom(IF data[i].type = "IMU_TYPE" THEN ProcessIMU(pr, o, data[i])
                                                 ELSE ProcessGPS(pr, o, data[i]),
                    o, data, i + 1)

(***************************************************************************)
(* SpecOffline: RunOfflineMode on a parsed log                             *)
(***************************************************************************)
MaxImu == 2         \* IMU samples in the log
MaxGps == 3         \* GPS records in the log

\* the subsequences of at most n elements of the sequence m
RECURSIVE SubSeqsUpTo(_, _)
SubSeqsUpTo(m, n) ==
    IF m = <<>> THEN { <<>> }
    ELSE SubSeqsUpTo(Tail(m), n) \cup
         (IF n = 0 THEN {}
          ELSE { <<Head(m)>> \o rest : rest \in SubSeqsUpTo(Tail(m), n - 1) })

Reverse(m) == [i \in 1..Len(m) |-> m[Len(m) + 1 - i]]

\* the sequences of at most n elements of S
RECURSIVE SeqsUpTo(_, _)
SeqsUpTo(S, n) ==
    IF n = 0 THEN { <<>> }
    ELSE { <<>> } \cup { <<x>> \o rest : x \in S, rest \in SeqsUpTo(S, n - 1) }

\* the key TxtIO::ProcessGPS builds from the date and time fields of a record
\* taken at second sec
GpsTimeKey(sec) == TimeKey(<<"2025", "6", "12">>, <<"11", "22", sec>>)

\* the GPS records a log is taken from, in the order of the file or against it
OfflineGps ==
    << GPSWithTimeKey(GNSS(25, 100, 0, TRUE), GpsTimeKey("1")),
       GPSWithTimeKey(GNSS(50, 112, 45, TRUE), GpsTimeKey("2")),
       GPSWithTimeKey(GNSS(50, -1, 45, TRUE), GpsTimeKey("2")),
       GPSWithTimeKey(GNSS(75, 130, 90, TRUE), GpsTimeKey("3")) >>

OfflineNzz ==
    { <<>>,
      << NZZ(GpsTimeKey("1"), 350),
         NZZ(TimeKey(<<"2025", "06", "12">>, <<"11", "22", "02">>), 390),
         NZZ(GpsTimeKey("3"), 70) >>,
      << NZZ(TimeKey(<<"2025", "06", "12">>, <<"11", "22", "01">>), 10),
         NZZ(GpsTimeKey("1"), 350),
         NZZ(TimeKey(<<"2025", "06", "12">>, <<"11", "22", "2">>), 390),
         NZZ(TimeKey(<<"2025", "6", "12">>, <<"11", "22", "02">>), 30) >> }

OfflineLogs ==
    { [imu_data         |-> [i \in DOMAIN ts |-> IMU(ts[i], 1, 2)],
       gps_data         |-> [i \in DOMAIN gs |-> gs[i].gnss_data_],
       gps_with_timekey |-> gs,
       nzz_data         |-> nzz] :
        ts \in SeqsUpTo({25, 26}, MaxImu),
        gs \in SubSeqsUpTo(OfflineGps, MaxGps) \cup SubSeqsUpTo(Reverse(OfflineGps), MaxGps),
        nzz \in OfflineNzz }

OfflineFlags ==
    { [gps_time_offset |-> offset, enable_turn_detection |-> enable] :
        offset \in {-1, 0, 1}, enable \in BOOLEAN }

InitOffline ==
    /\ options = DefaultOptions
    /\ eskf = InitialESKF
    /\ rt = InitialRealtime
    /\ \E flags \in OfflineFlags, log \in OfflineLogs : off = OfflineRun(flags, log)
    /\ calls = <<>>
    /\ events = <<>>
    /\ td = InitialTurnDetector
    /\ io = InitialTxtIO
    /\ main = InitialMain

\* bool LoadAndReorganizeData(file_path), with ReadAllData's matching
LoadAndReorganizeData ==
    /\ off.phase = "start"
    /\ \E matched \in MatchGPSNZZData(off.gps_with_timekey, off.nzz_data,
                                      off.gps_time_offset) :
          IF off.imu_data = <<>> \/ off.gps_data = <<>>
          THEN off' = [off EXCEPT !.phase = "failed", !.matched_heading_data_ = matched]
          ELSE LET all_data == ConvertToTimeStampedData(off.imu_data, off.gps_data,
                                                        off.gps_time_offset)
               IN  \E sorted \in SortOutcomes(all_data,
                                     [i \in DOMAIN all_data |-> SortKey(all_data[i])]) :
                      off' = [off EXCEPT !.phase = "loaded",
                                         !.matched_heading_data_ = matched,
                                         !.all_data_ = sorted]
    /\ UNCHANGED <<options, eskf, rt, calls, events, td, io, main>>

\* the heading samples RunOfflineMode adds to the detector
RECURSIVE AddAllHeadingData(_, _)
AddAllHeadingData(heading_data, matched_data) ==
    IF matched_data = <<>> THEN heading_data
    ELSE AddAllHeadingData(AddHeadingData(heading_data, Head(matched_data)[1],
                                          Head(matched_data)[2]),
                           Tail(matched_data))

\* RunOfflineMode: turn detection and SetTurnSegments
DetectTurns ==
    /\ off.phase = "loaded"
    /\ \E detected_turns \in
              IF off.enable_turn_detection /\ off.matched_heading_data_ # <<>>
              THEN Finalize(AddAllHeadingData(<<>>, off.matched_heading_data_), TurnConfig)
              ELSE { <<>> } :
          off' = [off EXCEPT !.phase = "ready",
                             !.detected_turns = detected_turns,
                             !.turn_segments_ = IF detected_turns # <<>>
                                                THEN SetTurnSegments(detected_turns)
                                                ELSE @]
    /\ UNCHANGED <<options, eskf, rt, calls, events, td, io, main>>

\* bool ProcessReorganizedData(data, output_path)
ProcessReorganizedData ==
    /\ off.phase = "ready"
    /\ LET pr == ReplayFrom([eskf |-> eskf, calls |-> calls, events |-> events,
                             turn_segments_ |-> off.turn_segments_,
                             first_gps_processed_ |-> off.first_gps_processed_,
                             origin_ |-> off.origin_,
                             latest_gps_pos |-> 0, has_latest_gps |-> FALSE,
                             fout |-> off.fout],
                            options, off.all_data_, 1)
       IN  /\ eskf' = pr.eskf
           /\ calls' = pr.calls
           /\ events' = pr.events
           /\ off' = [off EXCEPT !.phase = "done",
                                 !.first_gps_processed_ = pr.first_gps_processed_,
                                 !.origin_ = pr.origin_,
                                 !.fout = pr.fout]
    /\ UNCHANGED <<options, rt, td, io, main>>

NextOffline == LoadAndReorganizeData \/ DetectTurns \/ ProcessReorganizedData

SpecOffline == InitOffline /\ [][NextOffline]_vars

(***************************************************************************)
(* Claims about the offline pipeline                                       *)
(***************************************************************************)
Range(f) == { f[x] : x \in DOMAIN f }

\* the timestamp the log gives a fix, plus the configured offset
ShiftedGpsTime(src) == off.gps_data[src].unix_time_ + off.gps_time_offset

\* C1: in the offline pipeline the events handed to the filter (IMU -> Predict,
\* GNSS -> Observe*) are non-decreasing in timestamp, for every log and every
\* offset, a GNSS event's timestamp being its original timestamp plus the offset.
C1_OfflineEventsNonDecreasing ==
    /\ \A i, j \in CallIdx :
          i < j => AppliedTime(calls[i]) <= AppliedTime(calls[j])
    /\ \A k \in EventIdx :
          LET ev == events[k]
          IN  ev.first <= ev.last
              => /\ ev.last = ev.first
                 /\ AppliedTime(calls[ev.first]) = ev.arg.timestamp
                 /\ ev.kind = "IMU_TYPE"
                       => /\ calls[ev.first].op = "Predict"
                          /\ calls[ev.first].arg \in Range(off.imu_data)
                 /\ ev.kind = "GPS_TYPE"
                       => /\ IsObserve(calls[ev.first])
                          /\ ev.arg.timestamp = ShiftedGpsTime(ev.arg.src)

C1_Witness ==
    /\ off.phase = "done"
    /\ off.gps_time_offset = -1
    /\ off.all_data_ # ConvertToTimeStampedData(off.imu_data, off.gps_data,
                                                off.gps_time_offset)
    /\ \E i, j, k \in CallIdx :
          /\ i < j /\ j < k
          /\ IsObserve(calls[i]) /\ calls[j].op = "Predict" /\ IsObserve(calls[k])
          /\ calls[j].ok

\* C2: in the merged offline event vector, an IMU event and an offset-shifted GNSS
\* event with the same timestamp are in the order IMU, GNSS.
C2_ImuBeforeGnssOnTies ==
    \A i, j \in DOMAIN off.all_data_ :
        (/\ off.all_data_[i].type = "GPS_TYPE"
         /\ off.all_data_[j].type = "IMU_TYPE"
         /\ off.all_data_[i].timestamp = off.all_data_[j].timestamp)
        => j < i

\* the detected turn segments that contain time t
SegmentsAround(t) ==
    { n \in 1..Len(off.detected_turns) :
        off.detected_turns[n].start_time <= t /\ t <= off.detected_turns[n].end_time }

\* C3: a GNSS event is applied with ObservePositionOnly exactly when its shifted
\* timestamp t has start_time <= t <= end_time for some detected turn segment, and
\* with ObserveGps otherwise; with turn detection disabled or no segment detected
\* every GNSS event uses ObserveGps.
C3_GatingBySegment ==
    /\ \A k \in EventIdx :
          LET ev == events[k]
          IN  (ev.kind = "GPS_TYPE" /\ ev.outcome # "not_converted")
              => /\ ev.last = ev.first
                 /\ calls[ev.first].arg.unix_time_ = ShiftedGpsTime(ev.arg.src)
                 /\ SegmentsAround(ShiftedGpsTime(ev.arg.src)) # {}
                       => calls[ev.first].op = "ObservePositionOnly"
                 /\ SegmentsAround(ShiftedGpsTime(ev.arg.src)) = {}
                       => calls[ev.first].op = "ObserveGps"
    /\ (~off.enable_turn_detection \/ off.detected_turns = <<>>)
          => \A i \in CallIdx : calls[i].op # "ObservePositionOnly"

C3_Witness ==
    /\ off.phase = "done"
    /\ off.gps_time_offset = 1
    /\ off.detected_turns # <<>>
    /\ \E i, j \in CallIdx :
          /\ calls[i].op = "ObserveGps"
          /\ calls[j].op = "ObservePositionOnly"
          /\ ~calls[j].pre.first_gnss_
          /\ calls[j].arg.unix_time_ = off.detected_turns[1].end_time
          /\ calls[j].post.p_ # calls[j].pre.p_


\* the entries of the reorganised data built from IMU samples, and from fixes
ImuEntries == { k \in DOMAIN off.all_data_ : off.all_data_[k].type = "IMU_TYPE" }

GpsEntries == { k \in DOMAIN off.all_data_ : off.all_data_[k].type = "GPS_TYPE" }

\* one entry per parsed IMU sample, with the sample and its timestamp as parsed;
\* one entry per parsed fix, with the timestamp of the fix plus the offset and
\* the other fields of the fix as parsed; and nothing else
NothingLostOrInvented ==
    /\ Len(off.all_data_) = Len(off.imu_data) + Len(off.gps_data)
    /\ Cardinality(ImuEntries) = Len(off.imu_data)
    /\ Cardinality(GpsEntries) = Len(off.gps_data)
    /\ \A x \in Range(off.imu_data) :
          Cardinality({ k \in ImuEntries : /\ off.all_data_[k].imu_data = x
                                           /\ off.all_data_[k].timestamp = x.timestamp_ })
            = Cardinality({ i \in DOMAIN off.imu_data : off.imu_data[i] = x })
    /\ \A i \in DOMAIN off.gps_data :
          /\ Cardinality({ k \in GpsEntries : off.all_data_[k].src = i }) = 1
          /\ \A k \in GpsEntries :
                off.all_data_[k].src = i =>
                    /\ off.all_data_[k].timestamp = ShiftedGpsTime(i)
                    /\ [off.all_data_[k].gps_data EXCEPT
                           !.unix_time_ = off.gps_data[i].unix_time_] = off.gps_data[i]

Reorganized == off.phase \in {"loaded", "ready", "done"}

\* C14 as stated: after LoadAndReorganizeData the merged vector holds exactly one
\* entry per parsed IMU sample, with its timestamp unchanged, and one per parsed
\* fix, with its timestamp plus the offset; its length is |IMU| + |GNSS| and the
\* payloads are unaltered.
C14_Original ==
    off.phase \in {"failed", "loaded", "ready", "done"} => NothingLostOrInvented

\* C14: when the log holds at least one IMU sample and at least one fix,
\* LoadAndReorganizeData succeeds and the merged vector loses and invents nothing;
\* when the log holds no IMU sample or no fix, it fails and the vector is empty.
C14_ReorganizeKeepsEverything ==
    /\ Reorganized =>
          (off.imu_data # <<>> /\ off.gps_data # <<>> /\ NothingLostOrInvented)
    /\ off.phase = "failed" =>
          ((off.imu_data = <<>> \/ off.gps_data = <<>>) /\ off.all_data_ = <<>>)

\* a log with two samples and two fixes, a nonzero offset, and a merged vector
\* that is not the samples followed by the fixes
C14_Witness ==
    /\ off.phase = "loaded"
    /\ Len(off.imu_data) >= 2 /\ Len(off.gps_data) >= 2
    /\ off.gps_time_offset # 0
    /\ off.all_data_ # ConvertToTimeStampedData(off.imu_data, off.gps_data,
                                                 off.gps_time_offset)

\* the heading samples whose key equals the key of fix k, and those whose key
\* equals it after both are normalized
ExactMatches(k) ==
    { j \in DOMAIN off.nzz_data : off.nzz_data[j].time_key_ = off.gps_with_timekey[k].time_key_ }

NormalizedMatches(k) ==
    { j \in DOMAIN off.nzz_data :
        NormalizeTimeKey(off.nzz_data[j].time_key_)
           = NormalizeTimeKey(off.gps_with_timekey[k].time_key_) }

Least(S) == CHOOSE x \in S : \A y \in S : x <= y

\* the fixes that have a heading sample, and the pair each of them is due
MatchedFixes ==
    { k \in DOMAIN off.gps_with_timekey : ExactMatches(k) \cup NormalizedMatches(k) # {} }

DuePair(k) ==
    LET j == IF ExactMatches(k) # {} THEN Least(ExactMatches(k))
                                     ELSE Least(NormalizedMatches(k))
    IN  <<off.gps_with_timekey[k].gnss_data_.unix_time_ + off.gps_time_offset,
          off.nzz_data[j].heading_>>

\* C22: the matched headings hold one pair (timestamp + offset, heading) for
\* every fix that has a matching heading sample and none for the others; the
\* heading is that of the first sample with an equal key, and only if there is
\* none that of the first sample with an equal normalized key; the pairs are
\* sorted by timestamp.
C22_MatchHeadings ==
    off.phase \in {"loaded", "failed", "ready", "done"} =>
        LET matched == off.matched_heading_data_
        IN  /\ Len(matched) = Cardinality(MatchedFixes)
            /\ \E f \in [DOMAIN matched -> MatchedFixes] :
                  /\ \A a, b \in DOMAIN matched : a # b => f[a] # f[b]
                  /\ \A a \in DOMAIN matched : matched[a] = DuePair(f[a])
            /\ \A a, b \in DOMAIN matched : a < b => matched[a][1] <= matched[b][1]

\* a load in which one fix took the sample with its own key although an
\* earlier sample has the same normalized key, another fix had two samples
\* to choose from in the normalized pass, and the sort moved the pairs
C22_Witness ==
    /\ off.phase = "loaded"
    /\ \E k \in MatchedFixes :
          /\ ExactMatches(k) # {}
          /\ Least(NormalizedMatches(k)) < Least(ExactMatches(k))
    /\ \E k \in MatchedFixes :
          ExactMatches(k) = {} /\ Cardinality(NormalizedMatches(k)) = 2
    /\ off.matched_heading_data_ #
          MatchedPairs(off.gps_with_timekey, off.nzz_data, off.gps_time_offset)

(***************************************************************************)
(* SpecPipelines: one run of either pipeline                               *)
(***************************************************************************)
InitPipelines == InitRealtime \/ InitOffline

NextPipelines ==
    \/ off.phase = "idle" /\ NextRealtime
    \/ off.phase # "idle" /\ NextOffline

SpecPipelines == InitPipelines /\ [][NextPipelines]_vars

(***************************************************************************)
(* Claims about the filter's clock, its initialization and the pending     *)
(* queue under the pipelines                                               *)
(***************************************************************************)
\* C34: over every sequence of Predict, ObserveGps and ObservePositionOnly calls
\* issued by the realtime or the offline pipeline, no call leaves the filter's
\* current_time smaller than it found it.
C34_ClockNeverDecreases ==
    \A i \in CallIdx :
        /\ calls[i].post.current_time_ >= calls[i].pre.current_time_
        /\ i > 1 => calls[i].pre.current_time_ = calls[i - 1].post.current_time_

\* the nominal state Predict propagates
Nominal(e) == [p_ |-> e.p_, v_ |-> e.v_, R_ |-> e.R_, cov_ |-> e.cov_]

\* C35: in both pipelines a Predict issued before the filter has been
\* initialized by its first fix does not propagate the nominal state: position,
\* velocity, attitude and covariance are after the call what they were before
\* it, the call setting current_time at most.
C35_NoPropagationBeforeFirstFix ==
    \A i \in CallIdx :
        (calls[i].op = "Predict" /\ calls[i].pre.first_gnss_)
            => Nominal(calls[i].post) = Nominal(calls[i].pre)

\* C36: in the realtime pipeline every fix placed in the pending queue has been
\* applied with ObserveGps by the time the run ends: when RunRealtimeMode has
\* returned the pending queue is empty.
C36_QueueEmptyAtEndOfStream ==
    (~main.offline_mode /\ main.txt_path = "log" /\ main.returned.done)
        => rt.pending_gps_queue = <<>>

\* C37: in the realtime pipeline, when an IMU event has been processed (Predict,
\* then the loop over the pending queue), every fix still in the pending queue
\* has a timestamp strictly greater than the filter's current_time, in
\* whatever order the fixes arrived.
C37_QueuedFixesAheadOfClock ==
    \A k \in EventIdx :
        LET ev == events[k]
        IN  (ev.kind = "imu" /\ ev.outcome = "predicted")
                => \A n \in DOMAIN ev.queue_post :
                       ev.queue_post[n].unix_time_ > calls[ev.last].post.current_time_

(***************************************************************************)
(* SpecMain: main() from its flags to its return value                     *)
(***************************************************************************)
\* what TxtIO::Go delivers from a file that could not be opened: nothing
UnopenedLog ==
    [imu_data |-> <<>>, gps_data |-> <<>>, gps_with_timekey |-> <<>>, nzz_data |-> <<>>]

\* the logs main is run on: those without $NZZ records
MainLogs == { log \in OfflineLogs : log.nzz_data = <<>> }

InitMain ==
    /\ options = DefaultOptions
    /\ eskf = InitialESKF
    /\ rt = InitialRealtime
    /\ calls = <<>>
    /\ events = <<>>
    /\ td = InitialTurnDetector
    /\ io = InitialTxtIO
    /\ \E txt_path \in {"", "missing", "log"}, offline_mode \in BOOLEAN :
          /\ main = Main(txt_path, offline_mode)
          /\ IF offline_mode /\ txt_path # ""
             THEN \E flags \in OfflineFlags,
                     log \in IF txt_path = "log" THEN MainLogs ELSE {UnopenedLog} :
                      off = OfflineRun(flags, log)
             ELSE off = InitialOffline

\* main: if (FLAGS_txt_path.empty()) return -1
ReturnEmptyPath ==
    /\ main.txt_path = ""
    /\ ~main.returned.done
    /\ main' = [main EXCEPT !.returned = [done |-> TRUE, value |-> -1]]
    /\ UNCHANGED <<options, eskf, rt, off, calls, events, td, io>>

\* RunRealtimeMode while io.Go() reads the log: one callback
RealtimeGo ==
    /\ ~main.offline_mode
    /\ main.txt_path = "log"
    /\ ~main.returned.done
    /\ NextRealtime

\* RunRealtimeMode after io.Go() has come back, at the end of the log or at
\* once when the file could not be opened: return 0, which main returns
RealtimeReturn ==
    /\ ~main.offline_mode
    /\ main.txt_path # ""
    /\ ~main.returned.done
    /\ main' = [main EXCEPT !.returned = [done |-> TRUE, value |-> 0]]
    /\ UNCHANGED <<options, eskf, rt, off, calls, events, td, io>>

\* RunOfflineMode: one of its steps
OfflineSteps ==
    /\ main.offline_mode
    /\ main.txt_path # ""
    /\ ~main.returned.done
    /\ NextOffline

\* RunOfflineMode: return -1 when LoadAndReorganizeData failed, 0 at its end
OfflineReturn ==
    /\ main.offline_mode
    /\ main.txt_path # ""
    /\ ~main.returned.done
    /\ off.phase \in {"failed", "done"}
    /\ main' = [main EXCEPT !.returned =
                    [done |-> TRUE, value |-> IF off.phase = "failed" THEN -1 ELSE 0]]
    /\ UNCHANGED <<options, eskf, rt, off, calls, events, td, io>>

NextMain ==
    \/ ReturnEmptyPath
    \/ RealtimeGo
    \/ RealtimeReturn
    \/ OfflineSteps
    \/ OfflineReturn

SpecMain == InitMain /\ [][NextMain]_vars

\* C25: when the input log cannot be opened, main returns a non-zero exit
\* code, in the offline and in the realtime mode alike.
C25_UnopenedLogExitsNonZero ==
    (main.txt_path = "missing" /\ main.returned.done) => main.returned.value # 0

(***************************************************************************)
(* SpecRoundTrip: the offline pipeline on a log and on the same log with   *)
(* its GNSS timestamps shifted and the shift taken back by the flag        *)
(***************************************************************************)
RoundTripGps ==
    << GPSWithTimeKey(GNSS(25, 100, 0, TRUE), GpsTimeKey("1")),
       GPSWithTimeKey(GNSS(28, 112, 45, TRUE), GpsTimeKey("2")),
       GPSWithTimeKey(GNSS(50, 130, 90, TRUE), GpsTimeKey("3")) >>

RoundTripNzz ==
    { <<>>,
      << NZZ(GpsTimeKey("1"), 350), NZZ(GpsTimeKey("2"), 390), NZZ(GpsTimeKey("3"), 70) >> }

RoundTripLogs ==
    { [imu_data         |-> [i \in DOMAIN ts |-> IMU(ts[i], 1, 2)],
       gps_data         |-> [i \in DOMAIN gs |-> gs[i].gnss_data_],
       gps_with_timekey |-> gs,
       nzz_data         |-> nzz] :
        ts \in SeqsUpTo({27, 28}, MaxImu),
        gs \in SubSeqsUpTo(RoundTripGps, MaxGps),
        nzz \in RoundTripNzz }

\* the log with delta added to the timestamp of every $GPS record
ShiftLog(log, delta) ==
    [log EXCEPT
       !.gps_data = [i \in DOMAIN @ |-> [@[i] EXCEPT !.unix_time_ = @ + delta]],
       !.gps_with_timekey =
           [i \in DOMAIN @ |-> [@[i] EXCEPT !.gnss_data_.unix_time_ = @ + delta]]]

\* the flags and the log of one of the two runs that are compared
RoundTripFlags(enable, delta, shifted) ==
    [gps_time_offset |-> IF shifted THEN -delta ELSE 0, enable_turn_detection |-> enable]

RoundTripLog(log, delta, shifted) == IF shifted THEN ShiftLog(log, delta) ELSE log

\* one run; log, delta and shifted record which of the two runs it is
InitRoundTrip ==
    /\ options = DefaultOptions
    /\ eskf = InitialESKF
    /\ rt = InitialRealtime
    /\ \E log \in RoundTripLogs, delta \in {-1, 0, 1}, enable, shifted \in BOOLEAN :
          off = OfflineRun(RoundTripFlags(enable, delta, shifted),
                           RoundTripLog(log, delta, shifted))
                @@ [log |-> log, delta |-> delta, shifted |-> shifted]
    /\ calls = <<>>
    /\ events = <<>>
    /\ td = InitialTurnDetector
    /\ io = InitialTxtIO
    /\ main = InitialMain

SpecRoundTrip == InitRoundTrip /\ [][NextOffline]_vars

\* what a run of RunOfflineMode produces: the filter operations, the turn
\* segments, the trajectory
RunResult(filter_calls, turn_segments, fout) ==
    [calls |-> filter_calls, turn_segments_ |-> turn_segments, fout |-> fout]

\* the results RunOfflineMode can produce on a log that loads: LoadAndReorganizeData,
\* turn detection, SetTurnSegments, ProcessReorganizedData
RunOutcomes(flags, log) ==
    LET all_data == ConvertToTimeStampedData(log.imu_data, log.gps_data,
                                             flags.gps_time_offset)
        Detected(matched) ==
            IF flags.enable_turn_detection /\ matched # <<>>
            THEN Finalize(AddAllHeadingData(<<>>, matched), TurnConfig)
            ELSE { <<>> }
        Replay(sorted, detected_turns) ==
            LET segments == IF detected_turns # <<>> THEN SetTurnSegments(detected_turns)
                                                     ELSE <<>>
                pr == ReplayFrom([eskf |-> InitialESKF, calls |-> <<>>, events |-> <<>>,
                                  turn_segments_ |-> segments,
                                  first_gps_processed_ |-> FALSE, origin_ |-> 0,
                                  latest_gps_pos |-> 0, has_latest_gps |-> FALSE,
                                  fout |-> <<>>],
                                 DefaultOptions, sorted, 1)
            IN  RunResult(pr.calls, segments, pr.fout)
    IN  UNION { UNION { { Replay(sorted, detected_turns) :
                            sorted \in SortOutcomes(all_data,
                                          [i \in DOMAIN all_data |-> SortKey(all_data[i])]) } :
                        detected_turns \in Detected(matched) } :
                matched \in MatchGPSNZZData(log.gps_with_timekey, log.nzz_data,
                                             flags.gps_time_offset) }

\* C26: the offline pipeline on a log whose GNSS timestamps are shifted by
\* delta, run with gps_time_offset = -delta, and the pipeline on the unshifted
\* log with offset 0 produce the same filter operations, the same turn
\* segments and the same trajectory: what one of the two runs has produced at
\* its end, the other can produce.
C26_OffsetRoundTrip ==
    off.phase = "done" =>
        RunResult(calls, off.turn_segments_, off.fout) \in
            RunOutcomes(RoundTripFlags(off.enable_turn_detection, off.delta, ~off.shifted),
                        RoundTripLog(off.log, off.delta, ~off.shifted))

(***************************************************************************)
(* Claims about the trajectory file                                        *)
(***************************************************************************)
\* the timestamp column of a trajectory file
RowTimes(fout) == [i \in DOMAIN fout |-> fout[i].state.timestamp_]

NonDecreasing(s) == \A i, j \in DOMAIN s : i < j => s[i] <= s[j]

\* an accepted realtime stream: the IMU samples arrive in timestamp order
ImuArrivalsMonotone ==
    \A i, j \in 1..Len(events) :
        (i < j /\ events[i].kind = "imu" /\ events[j].kind = "imu") =>
            events[i].arg.timestamp_ <= events[j].arg.timestamp_

MaxSamples == 5     \* heading samples added one at a time

FirstHeading == 340

\* the change of heading from one sample to the next, in degrees
HeadingSteps == { 0, 40, -20, 180 }

\* the time from one sample to the next, in ticks: 1 s and 3 s
SampleGaps == { TicksPerSecond, 3 * TicksPerSecond }

\* a heading that changes by 9 degrees per second for 10 s and then stays for
\* 5 s, one sample per second as (timestamp, heading); sign = 1 turns left
RampStream(sign) ==
    [k \in 1..16 |-> <<TicksPerSecond * (k - 1), sign * 9 * Min(k - 1, 10)>>]

\* whole streams of matched headings: the ramp, its mirror image, the ramp
\* delivered last sample first, and a stream with two samples of one timestamp
MatchedStreams ==
    { RampStream(1), RampStream(-1), Reverse(RampStream(1)),
      << <<0, 0>>, <<25, 40>>, <<25, 80>>, <<50, 120>>, <<75, 160>> >> }

InitTurnDetector ==
    /\ options = DefaultOptions
    /\ eskf = InitialESKF
    /\ rt = InitialRealtime
    /\ off = InitialOffline
    /\ calls = <<>>
    /\ events = <<>>
    /\ td = InitialTurnDetector
    /\ io = InitialTxtIO
    /\ main = InitialMain

\* turn_detector.AddHeadingData(timestamp, heading), one sample after another
TdAddHeadingData ==
    /\ td.phase = "initialized"
    /\ Len(td.added) < MaxSamples
    /\ \E step \in HeadingSteps, gap \in SampleGaps :
          LET last      == td.added[Len(td.added)]
              timestamp == IF td.added = <<>> THEN 0 ELSE last[1] + gap
              heading   == IF td.added = <<>> THEN FirstHeading ELSE last[2] + step
          IN  td' = [td EXCEPT
                       !.added = Append(@, <<timestamp, heading>>),
                       !.heading_data_ = AddHeadingData(@, timestamp, heading)]
    /\ UNCHANGED <<options, eskf, rt, off, calls, events, io, main>>

\* the loop of RunOfflineMode that hands all matched headings to the detector
TdAddMatched ==
    /\ td.phase = "initialized"
    /\ td.added = <<>>
    /\ \E matched_data \in MatchedStreams :
          td' = [td EXCEPT
                   !.added = matched_data,
                   !.heading_data_ = AddAllHeadingData(<<>>, matched_data)]
    /\ UNCHANGED <<options, eskf, rt, off, calls, events, io, main>>

\* heading_data_ in the order the positions are listed in
InOrder(heading_data, order) == [n \in 1..Len(heading_data) |-> heading_data[order[n]]]

\* turn_detector.Finalize()
TdFinalize ==
    /\ td.phase = "initialized"
    /\ IF Len(td.heading_data_) < 2
       THEN td' = [td EXCEPT !.phase = "finalized"]
       ELSE \E order \in SortedOrders([i \in DOMAIN td.heading_data_ |->
                                            td.heading_data_[i].timestamp],
                                       DOMAIN td.heading_data_) :
              LET sorted == InOrder(td.heading_data_, order)
                  rates  == CalculateTurnRates(sorted)
                  run    == DetectRun(rates, TurnConfig)
              IN  td' = [td EXCEPT !.phase = "finalized",
                                   !.heading_data_ = sorted,
                                   !.order = order,
                                   !.turn_rates_ = rates,
                                   !.detected_turns_ = run.detected_turns,
                                   !.emitted = run.emitted]
    /\ UNCHANGED <<options, eskf, rt, off, calls, events, io, main>>

NextTurnDetector == TdAddHeadingData \/ TdAddMatched \/ TdFinalize

SpecTurnDetector == InitTurnDetector /\ [][NextTurnDetector]_vars

(***************************************************************************)
(* Claims about the turn detector                                          *)
(***************************************************************************)
Finalized == td.phase = "finalized"

SegmentIdx == 1..Len(td.detected_turns_)

EmissionPaths == { "end_timing", "reversal", "end_of_stream" }

\* C15: every segment in the detector's output has cumulative angle >= angle_deg,
\* whichever of the three paths recorded it; a pending turn with a smaller
\* cumulative angle is never recorded.
C15_EmittedAngleAtLeastThreshold ==
    Finalized =>
        /\ Len(td.emitted) = Len(td.detected_turns_)
        /\ \A n \in SegmentIdx :
              /\ td.emitted[n].path \in EmissionPaths
              /\ td.detected_turns_[n].total_angle >= TurnConfig.accumulated_angle_threshold

\* a stream whose first turn was recorded at a reversal and whose last turn, still
\* pending at the end of the stream with a smaller angle, was not
C15_Witness ==
    /\ Finalized
    /\ Len(td.detected_turns_) = 1
    /\ td.emitted[1].path = "reversal"
    /\ Len(td.turn_rates_) < TurnConfig.smoothing_window_size
    /\ LET last == td.turn_rates_[Len(td.turn_rates_)]
           prev == td.turn_rates_[Len(td.turn_rates_) - 1]
       IN  /\ td.emitted[1].fired_at = last.timestamp
           /\ Abs(last.turn_rate) * (last.timestamp - prev.timestamp)
                 < TurnConfig.accumulated_angle_threshold * TicksPerSecond

\* C16: every recorded segment has start_time equal to the timestamp of the first
\* rate of the turn and end_time equal to the timestamp of the rate at which the
\* condition that ended it fired, on each of the three paths.
C16_SegmentTimes ==
    Finalized =>
        \A n \in SegmentIdx :
            /\ td.detected_turns_[n].start_time = td.emitted[n].started_at
            /\ td.detected_turns_[n].end_time = td.emitted[n].fired_at

\* C17: for the heading that ramps from 0 to 90 degrees in 10 s at 9 degrees per
\* second and then stays for 5 s, with the default configuration, the detector
\* records exactly one segment, to the left, with cumulative angle in [85, 95].
C17_RampScenario ==
    (Finalized /\ td.added = RampStream(1)) =>
        /\ Len(td.detected_turns_) = 1
        /\ td.detected_turns_[1].direction = "left"
        /\ td.detected_turns_[1].total_angle >= 85 * RateScale
        /\ td.detected_turns_[1].total_angle <= 95 * RateScale

\* what the detector records for the samples given, sorted into the same order
Redetect(samples, order) ==
    LET heading_data == AddAllHeadingData(<<>>, samples)
    IN  IF Len(heading_data) < 2 THEN <<>>
        ELSE DetectTurnSegments(CalculateTurnRates(InOrder(heading_data, order)),
                                TurnConfig)

HeadingOffsets == { -90, 1, 180, 400 }

WrapPatterns(n) == { [i \in 1..n |-> ((i + shift) % 3) - 1] : shift \in 0..2 }

\* C19: the output of the detector is the same when any heading h is replaced by
\* (h + 360 k) mod 360, or by h + 360 k, with k chosen for each sample.
C19_WrapInvariant ==
    Finalized =>
        /\ Redetect([i \in DOMAIN td.added |->
                        <<td.added[i][1], td.added[i][2] % FullTurn>>],
                    td.order) = td.detected_turns_
        /\ \A k \in WrapPatterns(Len(td.added)) :
              Redetect([i \in DOMAIN td.added |->
                          <<td.added[i][1], td.added[i][2] + FullTurn * k[i]>>],
                       td.order) = td.detected_turns_

\* a recorded turn in a stream with a heading given outside [0, 360)
C19_Witness ==
    /\ Finalized
    /\ td.detected_turns_ # <<>>
    /\ \E i \in DOMAIN td.added : td.added[i][2] >= FullTurn \/ td.added[i][2] < 0

\* bool IsInTurn() const
IsInTurn(detector) == detector.in_turn_

\* the state the loop of DetectTurnSegments ended in, over the rates of the
\* processed stream
LoopEnd(detector) ==
    DetectLoop(DetectStart, SmoothTurnRates(detector.turn_rates_, TurnConfig), 1, TurnConfig)

\* C30: after a heading stream has been processed, IsInTurn() is true when the
\* stream ended inside a turn (accumulating or timing its end) and false when
\* the detector is idle.
C30_IsInTurn ==
    (Finalized /\ td.turn_rates_ # <<>>) => (IsInTurn(td) <=> LoopEnd(td).in_turn)

\* the rates the loop of DetectTurnSegments ran over
SmoothedRates(detector) == SmoothTurnRates(detector.turn_rates_, TurnConfig)

\* the locals of DetectTurnSegments after the first n passes of its loop
LoopAt(detector, n) ==
    DetectLoop(DetectStart, SubSeq(SmoothedRates(detector), 1, n), 1, TurnConfig)

\* the passes of the loop that have a pass before them
LaterPasses == 2..Len(SmoothedRates(td))

\* the pass i finds the detector accumulating and a rate above the start
\* threshold against the direction of the turn
IsReversal(i) ==
    LET before == LoopAt(td, i - 1)
        rate   == SmoothedRates(td)[i].turn_rate
    IN  /\ before.in_turn /\ ~before.in_end_timing
        /\ TurnDirection(rate) # before.turn_direction /\ rate # 0
        /\ Abs(rate) > TurnConfig.start_turn_rate_threshold

\* C31: in Accumulating, a sample whose rate has the sign opposite to the
\* direction and |rate| > start_rate_deg_s emits the current segment if and only
\* if its cumulative angle >= angle_deg, and leaves the detector accumulating
\* in the new direction, the new segment starting at that sample with its
\* cumulative angle 0.
C31_Reversal ==
    Finalized =>
        \A i \in LaterPasses :
            IsReversal(i) =>
                LET before == LoopAt(td, i - 1)
                    after  == LoopAt(td, i)
                IN  /\ Len(after.detected_turns) = Len(before.detected_turns) + 1
                         <=> before.accumulated_angle >= TurnConfig.accumulated_angle_threshold
                    /\ Len(after.detected_turns) \in
                         { Len(before.detected_turns), Len(before.detected_turns) + 1 }
                    /\ after.in_turn /\ ~after.in_end_timing
                    /\ after.turn_direction = TurnDirection(SmoothedRates(td)[i].turn_rate)
                    /\ after.turn_start_idx = i
                    /\ after.accumulated_angle = 0

\* the pass i finds the detector timing the end of a turn
IsEndTiming(i) == LoopAt(td, i - 1).in_turn /\ LoopAt(td, i - 1).in_end_timing

\* the rate of pass i is at or below the end threshold
IsQuiet(i) == Abs(SmoothedRates(td)[i].turn_rate) <= TurnConfig.end_turn_rate_threshold

\* the time from the start of the end timing to the sample of pass i
EndDuration(i) == SmoothedRates(td)[i].timestamp - LoopAt(td, i - 1).end_timing_start

\* what the sample of pass i adds to the angle of a turn in the direction of
\* the locals st
Integrated(st, i) ==
    LET rate == SmoothedRates(td)[i].turn_rate
        dt   == SmoothedRates(td)[i].timestamp - SmoothedRates(td)[i - 1].timestamp
    IN  IF rate # 0 /\ TurnDirection(rate) = st.turn_direction
        THEN Abs(Quot(rate * dt, TicksPerSecond))
        ELSE 0

\* C32: the end timing starts at the time of the sample that found the rate at
\* or below end_rate_deg_s; from then on the detector goes back to Idle only on a
\* sample with |rate| <= end_rate_deg_s and t - end_start >= end_duration_s,
\* emitting the segment if its cumulative angle >= angle_deg and discarding it
\* otherwise; a quiet sample before that changes nothing; a sample with
\* |rate| > end_rate_deg_s returns the detector to Accumulating with the
\* segment's start and direction kept and the cumulative angle kept and
\* integrated further.
C32_EndTiming ==
    Finalized =>
        \A i \in LaterPasses :
            LET before == LoopAt(td, i - 1)
                after  == LoopAt(td, i)
            IN  /\ (before.in_turn /\ ~before.in_end_timing /\ after.in_end_timing)
                       => after.end_timing_start = SmoothedRates(td)[i].timestamp
                /\ (IsEndTiming(i) /\ IsQuiet(i) /\ EndDuration(i) >= TurnConfig.end_duration_threshold)
                       => /\ ~after.in_turn /\ ~after.in_end_timing
                          /\ after.detected_turns =
                                IF before.accumulated_angle >= TurnConfig.accumulated_angle_threshold
                                THEN Append(before.detected_turns,
                                            RecordTurnSegment(SmoothedRates(td), before.turn_start_idx, i,
                                                              before.accumulated_angle,
                                                              before.turn_rates_list,
                                                              before.turn_direction))
                                ELSE before.detected_turns
                /\ (IsEndTiming(i) /\ IsQuiet(i) /\ EndDuration(i) < TurnConfig.end_duration_threshold)
                       => after = before
                /\ (IsEndTiming(i) /\ ~IsQuiet(i))
                       => /\ after.in_turn /\ ~after.in_end_timing
                          /\ after.turn_start_idx = before.turn_start_idx
                          /\ after.turn_direction = before.turn_direction
                          /\ after.accumulated_angle = before.accumulated_angle + Integrated(before, i)
                          /\ after.detected_turns = before.detected_turns

\* a stream in which a quiet sample came too early to end the turn and a later
\* one ended it
C32_Witness ==
    /\ Finalized
    /\ \E i \in LaterPasses, j \in LaterPasses :
          /\ i < j
          /\ IsEndTiming(i) /\ IsQuiet(i)
          /\ EndDuration(i) < TurnConfig.end_duration_threshold
          /\ IsEndTiming(j) /\ IsQuiet(j)
          /\ ~LoopAt(td, j).in_turn

\* the segments that hold the timestamp, by the test of IsInTurnSegment
SegmentsHolding(timestamp) ==
    { k \in DOMAIN td.detected_turns_ :
        /\ timestamp >= td.detected_turns_[k].start_time
        /\ timestamp <= td.detected_turns_[k].end_time }

\* C38: the segments the detector returns are well-formed and disjoint: each
\* has start_time <= end_time, they are in increasing time order with the
\* end_time of each strictly less than the start_time of the next, and a
\* timestamp lies inside one segment at most.
C38_SegmentsDisjoint ==
    Finalized =>
        /\ \A k \in DOMAIN td.detected_turns_ :
              td.detected_turns_[k].start_time <= td.detected_turns_[k].end_time
        /\ \A k \in DOMAIN td.detected_turns_ :
              k > 1 => td.detected_turns_[k - 1].end_time < td.detected_turns_[k].start_time
        /\ \A n \in DOMAIN td.heading_data_ :
              Cardinality(SegmentsHolding(td.heading_data_[n].timestamp)) <= 1

\* a stream with two segments
C38_Witness == Finalized /\ Len(td.detected_turns_) >= 2

(***************************************************************************)
(* TxtIO: pairing of $ACC and $GYR records.  Timestamps are kept in the    *)
(* log's milliseconds (the code divides them by 1000.0), accelerations in  *)
(* 0.1 m/s^2, angular rates in microradians per second.                    *)
(***************************************************************************)
TIME_SYNC_THRESHOLD == 50       \* 0.05 s

G_ACC == 98                     \* readings in g times 9.8, in 0.1 m/s^2

kDEG2RAD == 17453               \* pi / 180, in microradians per degree

\* earlier timestamps t of the model for which the doubles (t + 50) / 1000.0
\* and t / 1000.0 differ by more than the double 0.05: the quotients are
\* rounded, e.g. 1.05 - 1.0 = 0.05000000000000004 > 0.05, while
\* 0.05 - 0.0 = 0.05 and 0.1 - 0.05 = 0.05
RoundedAbove == { 1000, 1020, 1050, 1051 }

\* time_diff > TIME_SYNC_THRESHOLD, time_diff = std::abs of the difference
\* of the two timestamps in seconds
TimeDiffExceeds(t_acc, t_gyr) ==
    \/ Abs(t_acc - t_gyr) > TIME_SYNC_THRESHOLD
    \/ /\ Abs(t_acc - t_gyr) = TIME_SYNC_THRESHOLD
       /\ Min(t_acc, t_gyr) \in RoundedAbove

\* what imu_proc_ is given, with the records the two halves came from
Paired(imu, acc_src, gyr_src) == [imu |-> imu, acc_src |-> acc_src, gyr_src |-> gyr_src]

\* TxtIO::TryCreateIMU dropping the later of two timestamps too far apart
TryCreateIMU_DropsNewer(txt) ==
    LET acc == txt.pending_acc_
        gyr == txt.pending_gyr_
    IN  IF ~acc.valid \/ ~gyr.valid THEN txt
        ELSE IF TimeDiffExceeds(acc.timestamp, gyr.timestamp)
        THEN IF acc.timestamp < gyr.timestamp
             THEN [txt EXCEPT !.pending_gyr_.valid = FALSE]
             ELSE [txt EXCEPT !.pending_acc_.valid = FALSE]
        ELSE [txt EXCEPT
                !.imus = Append(@, Paired(IMU(Max(acc.timestamp, gyr.timestamp),
                                              gyr.gyro, acc.acce),
                                          acc.src, gyr.src)),
                !.pending_acc_.valid = FALSE,
                !.pending_gyr_.valid = FALSE]

\* TxtIO::TryCreateIMU
TryCreateIMU(txt) ==
    LET acc == txt.pending_acc_
        gyr == txt.pending_gyr_
    IN  IF ~acc.valid \/ ~gyr.valid THEN txt
        ELSE IF TimeDiffExceeds(acc.timestamp, gyr.timestamp)
        THEN IF acc.timestamp < gyr.timestamp
             THEN [txt EXCEPT !.pending_acc_.valid = FALSE]
             ELSE [txt EXCEPT !.pending_gyr_.valid = FALSE]
        ELSE [txt EXCEPT
                !.imus = Append(@, Paired(IMU(Max(acc.timestamp, gyr.timestamp),
                                              gyr.gyro, acc.acce),
                                          acc.src, gyr.src)),
                !.pending_acc_.valid = FALSE,
                !.pending_gyr_.valid = FALSE]

\* the slot as TxtIO::ProcessACC fills it: fields 3, 4, 5 are the readings of
\* the up, front and right axes, stored as X, Y, Z = right, front, up
StoreACC(txt, fields, src) ==
    [txt EXCEPT !.pending_acc_ =
        [valid |-> TRUE, timestamp |-> fields.timestamp,
         acce |-> <<G_ACC * fields.right, G_ACC * fields.front, G_ACC * fields.up>>,
         src |-> src]]

\* the slot as TxtIO::ProcessGYR fills it
StoreGYR(txt, fields, src) ==
    [txt EXCEPT !.pending_gyr_ =
        [valid |-> TRUE, timestamp |-> fields.timestamp,
         gyro |-> <<kDEG2RAD * fields.right, kDEG2RAD * fields.front,
                    kDEG2RAD * fields.up>>,
         src |-> src]]

\* TxtIO::ProcessACC: a record with fewer than 6 fields is skipped; std::stod
\* throws on a token that is not a number before the slot is written
ProcessACC(txt, fields, src) ==
    IF fields.size < 6 \/ ~fields.numeric THEN txt
    ELSE TryCreateIMU(StoreACC(txt, fields, src))

\* TxtIO::ProcessGYR: a record with fewer than 7 fields is skipped
ProcessGYR(txt, fields, src) ==
    IF fields.size < 7 \/ ~fields.numeric THEN txt
    ELSE TryCreateIMU(StoreGYR(txt, fields, src))

\* TxtIO::ProcessNZZ.  fields.heading is the token of field 11: whether
\* std::stod reads a number from it, and the number.  The key is marked as
\* processed before the heading is parsed
ProcessNZZ(txt, fields) ==
    IF fields.size < 12 THEN txt
    ELSE LET time_key == TimeKey(fields.date, fields.time)
         IN  IF time_key \in txt.processed_nzz_times_ THEN txt
             ELSE LET marked == [txt EXCEPT !.processed_nzz_times_ = @ \cup {time_key}]
                  IN  IF ~fields.heading.numeric THEN marked
                      ELSE [marked EXCEPT
                              !.nzzs = Append(@, NZZ(time_key, fields.heading.value))]

(***************************************************************************)
(* SpecTxtIO: TxtIO::Go on a log of $ACC and $GYR records                  *)
(***************************************************************************)
MaxRecords == 3     \* $ACC and $GYR records in the log

\* timestamps of the records, in ms: equal, 20, 30, 50, 51 and 1000 ms apart
RecordTimes == { 0, 50, 1000, 1020, 1050, 1051 }

\* readings of the up, front and right axes
Readings == { <<1, 0, 0>>, <<0, 2, -1>> }

\* the fields of a record after the type; size counts them
Fields(timestamp, reading, size) ==
    [timestamp |-> timestamp, up |-> reading[1], front |-> reading[2],
     right |-> reading[3], size |-> size, numeric |-> TRUE]

AccRecords ==
    { Fields(t, r, 6) : t \in RecordTimes, r \in Readings } \cup { Fields(0, <<1, 0, 0>>, 5) }

GyrRecords ==
    { Fields(t, r, 7) : t \in RecordTimes, r \in Readings } \cup { Fields(0, <<1, 0, 0>>, 6) }

\* the members of a TxtIO that outlive a line
ParserState(txt) ==
    [pending_acc_ |-> txt.pending_acc_, pending_gyr_ |-> txt.pending_gyr_,
     pending_flag_ |-> txt.pending_flag_, pending_flag_valid_ |-> txt.pending_flag_valid_,
     processed_nzz_times_ |-> txt.processed_nzz_times_]

\* the number of events each callback has been given
Delivered(txt) ==
    [imus |-> Len(txt.imus), gnss |-> Len(txt.gnss), gps_timekey |-> Len(txt.gps_timekey),
     nzzs |-> Len(txt.nzzs), fbks |-> Len(txt.fbks)]

\* one handled record: the slots when TryCreateIMU was called (at_call,
\* meaningful when called), and the instance before and after the handler
Handled(type, fields, called, at_call, pre, post) ==
    [type |-> type, fields |-> fields, called |-> called,
     acc_at_call |-> at_call.pending_acc_, gyr_at_call |-> at_call.pending_gyr_,
     acc_after |-> post.pending_acc_, gyr_after |-> post.pending_gyr_,
     emitted |-> SubSeq(post.imus, Len(pre.imus) + 1, Len(post.imus)),
     state_before |-> ParserState(pre), state_after |-> ParserState(post),
     delivered_before |-> Delivered(pre), delivered_after |-> Delivered(post)]

InitTxtIO ==
    /\ options = DefaultOptions
    /\ eskf = InitialESKF
    /\ rt = InitialRealtime
    /\ off = InitialOffline
    /\ calls = <<>>
    /\ events = <<>>
    /\ td = InitialTurnDetector
    /\ io = InitialTxtIO
    /\ main = InitialMain

\* a "$ACC" line, imu_proc_ being set
GoACC ==
    /\ Len(io.records) < MaxRecords
    /\ \E fields \in AccRecords :
          LET src  == Len(io.records) + 1
              post == ProcessACC(io, fields, src)
          IN  io' = [post EXCEPT !.records =
                        Append(@, Handled("ACC", fields, fields.size >= 6,
                                          StoreACC(io, fields, src), io, post))]
    /\ UNCHANGED <<options, eskf, rt, off, calls, events, td, main>>

\* a "$GYR" line, imu_proc_ being set
GoGYR ==
    /\ Len(io.records) < MaxRecords
    /\ \E fields \in GyrRecords :
          LET src  == Len(io.records) + 1
              post == ProcessGYR(io, fields, src)
          IN  io' = [post EXCEPT !.records =
                        Append(@, Handled("GYR", fields, fields.size >= 7,
                                          StoreGYR(io, fields, src), io, post))]
    /\ UNCHANGED <<options, eskf, rt, off, calls, events, td, main>>

NextTxtIO == GoACC \/ GoGYR

SpecTxtIO == InitTxtIO /\ [][NextTxtIO]_vars

(***************************************************************************)
(* Claims about the pairing of $ACC and $GYR records                       *)
(***************************************************************************)
\* the handled records at which TryCreateIMU found both slots filled with
\* timestamps at most 50 ms apart
MatchCase(h) ==
    /\ h.called
    /\ h.acc_at_call.valid
    /\ h.gyr_at_call.valid
    /\ Abs(h.acc_at_call.timestamp - h.gyr_at_call.timestamp) <= TIME_SYNC_THRESHOLD

\* C20: whenever both pending slots are filled and the two timestamps are at
\* most 50 ms apart, exactly one IMU sample is handed on, with the later of
\* the two timestamps and the pending gyro and accel values, and both slots
\* are empty afterwards; no $ACC or $GYR record is part of two IMU samples.
C20_PairingMatchCase ==
    /\ \A n \in DOMAIN io.records :
          LET h == io.records[n]
          IN  MatchCase(h) =>
                 /\ Len(h.emitted) = 1
                 /\ h.emitted[1].imu =
                       IMU(Max(h.acc_at_call.timestamp, h.gyr_at_call.timestamp),
                           h.gyr_at_call.gyro, h.acc_at_call.acce)
                 /\ ~h.acc_after.valid
                 /\ ~h.gyr_after.valid
    /\ \A i, j \in DOMAIN io.imus :
          i # j => /\ io.imus[i].acc_src # io.imus[j].acc_src
                   /\ io.imus[i].gyr_src # io.imus[j].gyr_src

\* the handled records at which TryCreateIMU found both slots filled with
\* timestamps more than 50 ms apart
MismatchCase(h) ==
    /\ h.called
    /\ h.acc_at_call.valid
    /\ h.gyr_at_call.valid
    /\ Abs(h.acc_at_call.timestamp - h.gyr_at_call.timestamp) > TIME_SYNC_THRESHOLD

\* a pending slot of the accelerometer: one record or none
PendingAccData(slot) ==
    /\ slot.valid \in BOOLEAN
    /\ slot.valid => slot.timestamp \in RecordTimes /\ Len(slot.acce) = 3

\* a pending slot of the gyroscope: one record or none
PendingGyrData(slot) ==
    /\ slot.valid \in BOOLEAN
    /\ slot.valid => slot.timestamp \in RecordTimes /\ Len(slot.gyro) = 3

\* C33: whenever both pending slots are filled and the two timestamps are more
\* than 50 ms apart, no IMU sample is handed on, the slot with the older
\* timestamp is invalidated and the slot with the newer timestamp stays
\* pending with the timestamp and values it had; each of the two slots holds
\* one record at most, a record that arrives while its slot is pending
\* taking the place of the pending one.
C33_PairingMismatchCase ==
    /\ PendingAccData(io.pending_acc_)
    /\ PendingGyrData(io.pending_gyr_)
    /\ \A n \in DOMAIN io.records :
          LET h == io.records[n]
          IN  /\ MismatchCase(h) =>
                    /\ h.emitted = <<>>
                    /\ IF h.acc_at_call.timestamp < h.gyr_at_call.timestamp
                       THEN ~h.acc_after.valid /\ h.gyr_after = h.gyr_at_call
                       ELSE ~h.gyr_after.valid /\ h.acc_after = h.acc_at_call
              /\ (h.called /\ h.type = "ACC" /\ h.acc_after.valid) => h.acc_after.src = n
              /\ (h.called /\ h.type = "GYR" /\ h.gyr_after.valid) => h.gyr_after.src = n

\* an $ACC record dropped for a $GYR record a second later, which stays pending
\* and is paired with the next $ACC record
C33_Witness ==
    /\ Len(io.records) = 3
    /\ MismatchCase(io.records[2])
    /\ io.records[2].type = "GYR"
    /\ ~io.records[2].acc_after.valid
    /\ io.records[2].gyr_after.valid
    /\ io.records[3].type = "ACC"
    /\ Len(io.records[3].emitted) = 1
    /\ io.records[3].emitted[1].gyr_src = 2

(***************************************************************************)
(* TxtIO: $NZZ, $FBK and $GPS records.  A token is what std::stod or       *)
(* std::stoi makes of it: a number, or an exception.                       *)
(***************************************************************************)
Number(v) == [numeric |-> TRUE, value |-> v]

NotANumber == [numeric |-> FALSE, value |-> 0]

\* a record in which a token that has to be a number is not one
NonNumeric(fields) == [fields EXCEPT !.numeric = FALSE]

\* "name:value", one comma separated item of a misalignment token
Item(name, token) == [name |-> name, token |-> token]

FBKPair(flag, pitch, heading) ==
    [flag_ |-> flag, misalignment_ |-> [pitch_ |-> pitch, heading_ |-> heading]]

\* the items of the names given, in the order of the token
RECURSIVE ItemsNamed(_, _)
ItemsNamed(items, name) ==
    IF items = <<>> THEN <<>>
    ELSE (IF Head(items).name = name THEN <<Head(items).token>> ELSE <<>>)
         \o ItemsNamed(Tail(items), name)

\* TxtIO::ProcessFBK on a misalignment line.  tokens are the words after
\* "misalignment", each a sequence of comma separated items; only the first
\* word is searched for "pitch:" and "heading:"
ProcessMisalignment(txt, tokens) ==
    IF ~txt.pending_flag_valid_ THEN txt
    ELSE IF Len(tokens) < 1 THEN txt
    ELSE LET pitch   == ItemsNamed(tokens[1], "pitch")
             heading == ItemsNamed(tokens[1], "heading")
             parsed  == pitch \o heading
         IN  IF \E i \in DOMAIN parsed : ~parsed[i].numeric THEN txt
             ELSE IF pitch # <<>> /\ heading # <<>>
             THEN [txt EXCEPT
                     !.fbks = Append(@, FBKPair(txt.pending_flag_,
                                                pitch[Len(pitch)].value,
                                                heading[Len(heading)].value)),
                     !.pending_flag_valid_ = FALSE]
             ELSE txt

\* TxtIO::ProcessFBK.  A flag line has size comma separated fields, field 2
\* the timestamp in ms
ProcessFBK(txt, line) ==
    IF line.kind = "flag"
    THEN IF line.size < 3 \/ ~line.timestamp.numeric THEN txt
         ELSE [txt EXCEPT !.pending_flag_ = [timestamp_ |-> line.timestamp.value],
                          !.pending_flag_valid_ = TRUE]
    ELSE IF line.kind = "misalignment" THEN ProcessMisalignment(txt, line.tokens)
    ELSE txt

\* the time key TxtIO::ProcessGPS builds with std::to_string from the six
\* integers std::stoi read
GpsKey(date, time) ==
    TimeKey([i \in 1..3 |-> ToString(date[i].value)], [i \in 1..3 |-> ToString(time[i].value)])

\* TxtIO::ProcessGPS: gnss_proc_ is called before the date and time fields
\* are parsed for gps_timekey_proc_
ProcessGPS_Record(txt, fields) ==
    IF fields.size < 25 \/ ~fields.numeric THEN txt
    ELSE LET gnss_data == GNSS(fields.timestamp, fields.lat_lon_alt, fields.heading, TRUE)
             given     == [txt EXCEPT !.gnss = Append(@, gnss_data)]
         IN  IF \E i \in 1..3 : ~fields.date[i].numeric \/ ~fields.time[i].numeric
             THEN given
             ELSE [given EXCEPT
                     !.gps_timekey = Append(@, GPSWithTimeKey(gnss_data,
                                                   GpsKey(fields.date, fields.time)))]

(***************************************************************************)
(* SpecTxtIOGo: TxtIO::Go on a log with records of every type, all         *)
(* callbacks set as OfflineDataManager::ReadAllData sets them              *)
(***************************************************************************)
MaxLines == 3       \* lines of the log

LogAccRecords ==
    { Fields(1000, <<1, 0, 0>>, 6), Fields(1020, <<1, 0, 0>>, 6),
      NonNumeric(Fields(1000, <<1, 0, 0>>, 6)), Fields(1000, <<1, 0, 0>>, 5) }

LogGyrRecords ==
    { Fields(1000, <<0, 2, -1>>, 7), Fields(1020, <<0, 2, -1>>, 7),
      NonNumeric(Fields(1000, <<0, 2, -1>>, 7)), Fields(1000, <<0, 2, -1>>, 6) }

NzzFields(date, time, heading, size) ==
    [date |-> date, time |-> time, heading |-> heading, size |-> size]

\* $NZZ records of two seconds, with a heading, with a field 11 that is not
\* a number, and one with 11 fields
LogNzzRecords ==
    { NzzFields(<<"2025", "6", "12">>, <<"11", "22", sec>>, heading, 12) :
        sec \in {"27", "28"}, heading \in {Number(90), Number(271), NotANumber} }
    \cup { NzzFields(<<"2025", "6", "12">>, <<"11", "22", "27">>, Number(90), 11) }

\* $FBK lines: flags, misalignments with "pitch:..,heading:.." in one word
\* and in two words, with one of the two only, with a value that is not a
\* number, and lines of other kinds
LogFbkLines ==
    { [kind |-> "flag", size |-> 5, timestamp |-> Number(1000)],
      [kind |-> "flag", size |-> 5, timestamp |-> Number(2000)],
      [kind |-> "flag", size |-> 2, timestamp |-> Number(3000)],
      [kind |-> "flag", size |-> 5, timestamp |-> NotANumber],
      [kind |-> "misalignment",
       tokens |-> << <<Item("pitch", Number(-18)), Item("heading", Number(2))>> >>],
      [kind |-> "misalignment",
       tokens |-> << <<Item("pitch", Number(-18))>>, <<Item("heading", Number(2))>> >>],
      [kind |-> "misalignment", tokens |-> << <<Item("pitch", Number(-18))>> >>],
      [kind |-> "misalignment",
       tokens |-> << <<Item("pitch", NotANumber), Item("heading", Number(2))>> >>],
      [kind |-> "info"] }

GpsFields(timestamp, date, time, size) ==
    [timestamp |-> timestamp, lat_lon_alt |-> 100, heading |-> 45,
     date |-> date, time |-> time, size |-> size, numeric |-> TRUE]

\* $GPS records: complete, with 24 fields, with a timestamp that is not a
\* number, and with a year that is not a number
LogGpsRecords ==
    LET date == <<Number(2025), Number(6), Number(12)>>
        time == <<Number(11), Number(22), Number(27)>>
    IN  { GpsFields(1000, date, time, 25),
          GpsFields(1000, date, time, 24),
          NonNumeric(GpsFields(1000, date, time, 25)),
          GpsFields(1000, <<NotANumber, Number(6), Number(12)>>, time, 25) }

InitTxtIOGo ==
    /\ options = DefaultOptions
    /\ eskf = InitialESKF
    /\ rt = InitialRealtime
    /\ off = InitialOffline
    /\ calls = <<>>
    /\ events = <<>>
    /\ td = InitialTurnDetector
    /\ io = InitialTxtIO
    /\ main = InitialMain

\* the instance after a line, with the line added to the history
AfterLine(type, fields, called, at_call, post) ==
    [post EXCEPT !.records = Append(@, Handled(type, fields, called, at_call, io, post))]

LineACC ==
    /\ Len(io.records) < MaxLines
    /\ \E fields \in LogAccRecords :
          LET src == Len(io.records) + 1
          IN  io' = AfterLine("ACC", fields, fields.size >= 6 /\ fields.numeric,
                              StoreACC(io, fields, src), ProcessACC(io, fields, src))
    /\ UNCHANGED <<options, eskf, rt, off, calls, events, td, main>>

LineGYR ==
    /\ Len(io.records) < MaxLines
    /\ \E fields \in LogGyrRecords :
          LET src == Len(io.records) + 1
          IN  io' = AfterLine("GYR", fields, fields.size >= 7 /\ fields.numeric,
                              StoreGYR(io, fields, src), ProcessGYR(io, fields, src))
    /\ UNCHANGED <<options, eskf, rt, off, calls, events, td, main>>

LineNZZ ==
    /\ Len(io.records) < MaxLines
    /\ \E fields \in LogNzzRecords :
          io' = AfterLine("NZZ", fields, FALSE, io, ProcessNZZ(io, fields))
    /\ UNCHANGED <<options, eskf, rt, off, calls, events, td, main>>

LineFBK ==
    /\ Len(io.records) < MaxLines
    /\ \E line \in LogFbkLines :
          io' = AfterLine("FBK", line, FALSE, io, ProcessFBK(io, line))
    /\ UNCHANGED <<options, eskf, rt, off, calls, events, td, main>>

LineGPS ==
    /\ Len(io.records) < MaxLines
    /\ \E fields \in LogGpsRecords :
          io' = AfterLine("GPS", fields, FALSE, io, ProcessGPS_Record(io, fields))
    /\ UNCHANGED <<options, eskf, rt, off, calls, events, td, main>>

NextTxtIOGo == LineACC \/ LineGYR \/ LineNZZ \/ LineFBK \/ LineGPS

SpecTxtIOGo == InitTxtIOGo /\ [][NextTxtIOGo]_vars

(***************************************************************************)
(* Claims about the parser                                                 *)
(***************************************************************************)
RecordIdx == DOMAIN io.records

\* the $NZZ records of the log that have 12 fields and a number as heading
IsNzzRecord(n) ==
    /\ io.records[n].type = "NZZ"
    /\ io.records[n].fields.size >= 12
    /\ io.records[n].fields.heading.numeric

NzzKeyOf(n) == TimeKey(io.records[n].fields.date, io.records[n].fields.time)

\* C21: for every wall-clock key of a $NZZ record, exactly one heading sample
\* with that key is given to the heading callback, and it carries the heading
\* of the first $NZZ record with that key in the order of the file.
C21_NzzFirstWins ==
    \A n \in RecordIdx :
        (IsNzzRecord(n) /\ \A m \in 1..(n - 1) : IsNzzRecord(m) => NzzKeyOf(m) # NzzKeyOf(n))
        => /\ Cardinality({ i \in DOMAIN io.nzzs : io.nzzs[i].time_key_ = NzzKeyOf(n) }) = 1
           /\ \E i \in DOMAIN io.nzzs :
                 io.nzzs[i] = NZZ(NzzKeyOf(n), io.records[n].fields.heading.value)

\* all items of a misalignment line, whichever word they are in
RECURSIVE AllItems(_)
AllItems(tokens) ==
    IF tokens = <<>> THEN <<>> ELSE Head(tokens) \o AllItems(Tail(tokens))

\* a misalignment record that carries a pitch and a heading, both numbers
CarriesPitchAndHeading(line) ==
    /\ line.kind = "misalignment"
    /\ ItemsNamed(AllItems(line.tokens), "pitch") # <<>>
    /\ ItemsNamed(AllItems(line.tokens), "heading") # <<>>
    /\ \A i \in DOMAIN AllItems(line.tokens) : AllItems(line.tokens)[i].token.numeric

\* a flag record with its three fields and a timestamp
IsFlagRecord(n) ==
    /\ io.records[n].type = "FBK"
    /\ io.records[n].fields.kind = "flag"
    /\ io.records[n].fields.size >= 3
    /\ io.records[n].fields.timestamp.numeric

\* C23: a calibration event is handed on exactly when a misalignment record
\* carrying both pitch and heading arrives while a flag is pending; it has the
\* timestamp of the most recent flag record, and the flag is no longer pending
\* afterwards; a misalignment without a pending flag hands on nothing.
C23_FbkPairing ==
    \A n \in RecordIdx :
        LET h      == io.records[n]
            before == h.delivered_before.fbks
            after  == h.delivered_after.fbks
        IN  h.type = "FBK" =>
               /\ after \in {before, before + 1}
               /\ after = before + 1
                     <=> CarriesPitchAndHeading(h.fields) /\ h.state_before.pending_flag_valid_
               /\ after = before + 1 =>
                     /\ ~h.state_after.pending_flag_valid_
                     /\ \E m \in 1..(n - 1) :
                           /\ IsFlagRecord(m)
                           /\ \A l \in (m + 1)..(n - 1) : ~IsFlagRecord(l)
                           /\ io.fbks[after].flag_.timestamp_
                                 = io.records[m].fields.timestamp.value

\* a record with too few fields, or with a token that is not a number where
\* the handler reads one
Malformed(h) ==
    LET f == h.fields
    IN  \/ h.type = "ACC" /\ (f.size < 6 \/ ~f.numeric)
        \/ h.type = "GYR" /\ (f.size < 7 \/ ~f.numeric)
        \/ h.type = "NZZ" /\ (f.size < 12 \/ ~f.heading.numeric)
        \/ h.type = "GPS" /\ (\/ f.size < 25
                              \/ ~f.numeric
                              \/ \E i \in 1..3 : ~f.date[i].numeric \/ ~f.time[i].numeric)
        \/ h.type = "FBK" /\ f.kind = "flag" /\ (f.size < 3 \/ ~f.timestamp.numeric)
        \/ h.type = "FBK" /\ f.kind = "misalignment"
              /\ \E i \in DOMAIN AllItems(f.tokens) : ~AllItems(f.tokens)[i].token.numeric

\* C24: a record with too few fields or with a token that is not a number
\* gives no event to any callback and leaves the pending $ACC slot, the pending
\* $GYR slot and the pending flag as they were.
C24_ParseErrorsHaveNoEffect ==
    \A n \in RecordIdx :
        LET h == io.records[n]
        IN  Malformed(h) =>
               /\ h.delivered_after = h.delivered_before
               /\ h.state_after.pending_acc_ = h.state_before.pending_acc_
               /\ h.state_after.pending_gyr_ = h.state_before.pending_gyr_
               /\ h.state_after.pending_flag_ = h.state_before.pending_flag_
               /\ h.state_after.pending_flag_valid_ = h.state_before.pending_flag_valid_

\* C39: a $GPS record is handed to the GNSS callback and to the callback of
\* fixes with their wall-clock key together or not at all, so that the two
\* buffers filled by them always have the same length.
C39_GpsDeliveredToBothOrNeither ==
    /\ Len(io.gnss) = Len(io.gps_timekey)
    /\ \A n \in RecordIdx :
          LET h == io.records[n]
          IN  h.type = "GPS" =>
                 h.delivered_after.gnss - h.delivered_before.gnss
                     = h.delivered_after.gps_timekey - h.delivered_before.gps_timekey

\* C40: a $NZZ record rejected for a parse error leaves the set of processed
\* keys as it was, and a later well-formed $NZZ record with the same key is
\* given to the heading callback.
C40_RejectedNzzKeepsKeyFree ==
    \A n \in RecordIdx :
        LET h == io.records[n]
        IN  (h.type = "NZZ" /\ Malformed(h)) =>
               /\ h.state_after.processed_nzz_times_ = h.state_before.processed_nzz_times_
               /\ \A m \in RecordIdx :
                     (/\ m > n
                      /\ IsNzzRecord(m)
                      /\ NzzKeyOf(m) = NzzKeyOf(n)
                      /\ NzzKeyOf(n) \notin h.state_before.processed_nzz_times_)
                     => io.records[m].delivered_after.nzzs = io.records[m].delivered_before.nzzs + 1

====
